---- MODULE Spec2Model ----
(***************************************************************************)
(* GazeTracker (eye-tracking-software): the calibration session            *)
(* controller (calibration.py), the application delegate that owns the     *)
(* camera, the estimator and the tracking timer (main.py), and the model   *)
(* slots of the estimator (gaze_estimator.py).                             *)
(*                                                                         *)
(* Time is counted in units of 0.05 s, so the four dwell times of tick_    *)
(* (0.3 s, 0.5 s, 1.5 s, 0.15 s) are the integers 6, 10, 30 and 3.         *)
(* Feature components are integers in units of 1e-8, so the epsilon that   *)
(* _finish_point_collection adds to the standard deviation is the integer  *)
(* 1 and the outlier score can be compared with 2.0 exactly.               *)
(* Confidence is counted in hundredths (0.3 is 30).                        *)
(***************************************************************************)
EXTENDS Integers, Sequences, FiniteSets

\* ---------------------------------------------------------------- bounds
MaxSessions == 2
MaxRedo == 1
MaxSceneChanges == 1
MaxCaptures == 2
ElapsedCap == 36
WindowDt == 5
MaxCalls == 130
MaxApiCalls == 3
MaxTrainings == 2

\* ------------------------------------------------------ program constants
AnimatingTime == 6
SettlingTime == 10
CollectingTime == 30
TransitioningTime == 3
ConfidenceGate == 30
MinBufferFrames == 5
MinSurvivors == 3
MinSamples == 10
Eps == 1
GridCols == 5
GridRows == 4
GpMaxSamples == 50
CvFolds == 5
EscapeKeyCode == 53
ScreenWidth == 1000
ScreenHeight == 800
Inf == 999

FrameMs == 33

FullLandmarks == 478

PoseRange == 60

MaxConfidence == 90

None == << >>

\* ------------------------------------------------------------- arithmetic
RECURSIVE SumUpTo(_, _)
SumUpTo(s, n) == IF n = 0 THEN 0 ELSE s[n] + SumUpTo(s, n - 1)

SeqSum(s) == SumUpTo(s, Len(s))

Abs(x) == IF x < 0 THEN -x ELSE x

Min(a, b) == IF a < b THEN a ELSE b

Dims == 1..6

\* ------------------------------------------------------------ target grid
\* Faulty variant of generate_calibration_points: the grid starts at the
\* screen's corner.
generate_calibration_points_NoMargin(screen_width, screen_height, cols, rows) ==
    [i \in 1..(cols * rows) |->
        LET row == (i - 1) \div cols
            col == (i - 1) % cols
        IN  << (col * screen_width) \div (cols - 1),
               (row * screen_height) \div (rows - 1) >>]

\* generate_calibration_points: margin 5%, row-major, cols x rows points.
\* The divisions are exact for the screens used here (sides that are multiples
\* of 20 pixels and whose inner 90% the grid steps divide).
generate_calibration_points(screen_width, screen_height, cols, rows) ==
    LET margin_x == (screen_width * 5) \div 100
        margin_y == (screen_height * 5) \div 100
    IN  [i \in 1..(cols * rows) |->
            LET row == (i - 1) \div cols
                col == (i - 1) % cols
            IN  << margin_x + (col * (screen_width - 2 * margin_x)) \div (cols - 1),
                   margin_y + (row * (screen_height - 2 * margin_y)) \div (rows - 1) >>]

points == generate_calibration_points(ScreenWidth, ScreenHeight, GridCols, GridRows)

NumPoints == Len(points)

\* ------------------------------------------------------ outlier aggregator
\* np.mean / np.std over axis 0, scaled by n = len(buffer) to stay in the
\* integers: ColSum = n * mean, VarN2 = n^2 * variance, DevN = n * |v - mean|.
ColSum(buf, k) == SeqSum([i \in 1..Len(buf) |-> buf[i][k]])

ColSumSq(buf, k) == SeqSum([i \in 1..Len(buf) |-> buf[i][k] * buf[i][k]])

VarN2(buf, k) == Len(buf) * ColSumSq(buf, k) - ColSum(buf, k) * ColSum(buf, k)

\* Faulty variant of BelowTwo: a score of exactly 2.0 passes.
BelowTwo_Inclusive(devn, n, varn2) ==
    LET a == devn - 2 * n * Eps
    IN  a < 0 \/ a * a <= 4 * varn2

\* |v - mean| / (std + 1e-8) < 2.0 for devn = n * |v - mean| and
\* varn2 = n^2 * variance, i.e. devn < 2 * (sqrt(varn2) + n * Eps), decided
\* without taking the root.  Feature values are integers in units of 1e-8,
\* so that Eps is 1.
BelowTwo(devn, n, varn2) ==
    LET a == devn - 2 * n * Eps
    IN  a < 0 \/ a * a < 4 * varn2

\* mean and std over axis 0, once per buffer
Stats(buf) ==
    [ n |-> Len(buf),
      sum |-> [k \in Dims |-> ColSum(buf, k)],
      var |-> [k \in Dims |-> VarN2(buf, k)] ]

\* distances = max over the dimensions; mask = distances < 2.0
MaskOf(buf, st) ==
    { i \in 1..st.n :
        \A k \in Dims : BelowTwo(Abs(st.n * buf[i][k] - st.sum[k]), st.n, st.var[k]) }

OutlierMask(buf) == UNION { MaskOf(buf, st) : st \in { Stats(buf) } }

\* features_array[mask], in buffer order
RECURSIVE Masked(_, _, _)
Masked(buf, mask, i) ==
    IF i = 0 THEN << >>
    ELSE IF i \in mask THEN Append(Masked(buf, mask, i - 1), buf[i])
    ELSE Masked(buf, mask, i - 1)

Filtered(buf) ==
    CHOOSE f \in { Masked(buf, mask, Len(buf)) : mask \in { OutlierMask(buf) } } : TRUE

RECURSIVE Gcd(_, _)
Gcd(a, b) == IF b = 0 THEN a ELSE Gcd(b, a % b)

\* np.mean(filtered, axis=0) as the exact fraction num / den in lowest terms
MeanOf(vs) ==
    LET sum == [k \in Dims |-> ColSum(vs, k)]
        g == Gcd(Gcd(Gcd(Gcd(Gcd(Gcd(Len(vs), Abs(sum[1])), Abs(sum[2])), Abs(sum[3])),
                     Abs(sum[4])), Abs(sum[5])), Abs(sum[6]))
    IN  [num |-> [k \in Dims |-> sum[k] \div g], den |-> Len(vs) \div g]

\* ------------------------------------------------------------------ state
VARIABLES
    app,        \* AppDelegate: capture, calibration, tracking_timer, is_tracking, ...
    estimator,  \* GazeEstimator: model_x, model_y
    extractor,  \* GazeEstimator: _timestamp_ms, _camera_matrix, and how it was called
    ctl,        \* the CalibrationController objects, by creation number
    camera,     \* the cv2.VideoCapture objects: how many were opened, which are released
    scene,      \* what the camera currently sees, and how often that has changed
    last_call   \* the most recent callback: which, on which controller, from which
                \* state, and how many frame reads and extractor runs it made

vars == << app, estimator, extractor, ctl, camera, scene, last_call >>

Sessions == 1..MaxSessions

\* A frame as one capture.read() and one process_frame() deliver it:
\* ret, and (features, confidence); features is None when no face is found.
NoFeatures == [ret |-> TRUE, features |-> None, confidence |-> 0]

ReadFailure == [ret |-> FALSE, features |-> None, confidence |-> 0]

Seen(f, conf) == [ret |-> TRUE, features |-> f, confidence |-> conf]

GoodFeatures == << 5, 5, 5, 5, 0, 0 >>

TiltFeatures == << 6, 5, 5, 5, 1, 0 >>

Scenes == { "good", "noface", "readfail" }

\* The head turned so far that the confidence is 0.31, or exactly 0.30.
GateScenes == Scenes \cup { "turned31", "turned30" }

SceneFrame(sc) ==
    CASE sc = "good"     -> Seen(GoodFeatures, 90)
      [] sc = "noface"   -> NoFeatures
      [] sc = "readfail" -> ReadFailure
      [] sc = "turned31" -> Seen(TiltFeatures, 31)
      [] sc = "turned30" -> Seen(TiltFeatures, 30)

\* Feature vectors for the aggregator: all at rest, one far off on one
\* dimension each, and one slightly off on the first and far off on the second.
AtRest == << 0, 0, 0, 0, 0, 0 >>

Far1 == << 28, 0, 0, 0, 0, 0 >>

Near1Far2 == << 4, 28, 0, 0, 0, 0 >>

Far3 == << 0, 0, 28, 0, 0, 0 >>

Far4 == << 0, 0, 0, 28, 0, 0 >>

AggFrames ==
    { Seen(f, 90) : f \in { AtRest, Far1, Near1Far2, Far3, Far4 } } \cup { NoFeatures }

\* ------------------------------------------------------------- estimator
\* GazeEstimator.__init__: no model.
NoModel == [family |-> "None", fitted |-> FALSE, by |-> [session |-> 0, round |-> 0]]

EstimatorInit == [model_x |-> NoModel, model_y |-> NoModel]

Unfitted(family, tag) == [family |-> family, fitted |-> FALSE, by |-> tag]

Fitted(m) == [m EXCEPT !.fitted = TRUE]

\* The outcomes of the library calls inside train_model: the cross-validated
\* errors of the two families, whether the Gaussian-process cross-validation
\* raises, and which of the two final fits raises ("ok": neither).
CvOutcomes == [ridge : {1, 2}, gp : {1, 2}, gp_raises : BOOLEAN]

FitOutcomes == { "ok", "x", "y" }

\* Faulty variant of the choice: on equal errors the Gaussian process wins.
SelectFamily_TieToGp(n, cv) ==
    LET n_splits == Min(CvFolds, n)
        ridge_error == IF n_splits >= 2 THEN cv.ridge ELSE Inf
        gp_error == IF n <= GpMaxSamples /\ n_splits >= 2 /\ ~cv.gp_raises
                    THEN cv.gp ELSE Inf
    IN  IF gp_error <= ridge_error THEN "gp" ELSE "ridge"

\* train_model lines 213-247: the family that is retrained on all samples.
SelectFamily(n, cv) ==
    LET n_splits == Min(CvFolds, n)
        ridge_error == IF n_splits >= 2 THEN cv.ridge ELSE Inf
        gp_error == IF n <= GpMaxSamples /\ n_splits >= 2 /\ ~cv.gp_raises
                    THEN cv.gp ELSE Inf
    IN  IF gp_error < ridge_error THEN "gp" ELSE "ridge"

\* train_model: both slots are assigned first, then fitted one after the other.
train_model(est, n, tag, cv, fit) ==
    LET family == SelectFamily(n, cv)
        fresh == Unfitted(family, tag)
    IN  CASE fit = "x"  -> [model_x |-> fresh, model_y |-> fresh, raised |-> TRUE]
          [] fit = "y"  -> [model_x |-> Fitted(fresh), model_y |-> fresh, raised |-> TRUE]
          [] fit = "ok" -> [model_x |-> Fitted(fresh), model_y |-> Fitted(fresh),
                            raised |-> FALSE]

\* predict: None while a slot is empty; otherwise both regressors are asked,
\* and a regressor that was never fitted raises NotFittedError.
predict(est, features) ==
    IF est.model_x.family = "None" \/ est.model_y.family = "None" THEN "None"
    ELSE IF est.model_x.fitted /\ est.model_y.fitted THEN "pair"
    ELSE "NotFittedError"

\* ----------------------------------------------------- feature extraction
\* GazeEstimator.__init__: the landmark clock at 0, no camera matrix.  passed
\* is the timestamp last handed to detect_for_video, n_calls the number of
\* process_frame calls, n_blank the number of those that found no full face,
\* n_trainings the number of train_model calls and
\* trained whether one of them returned.  followed says whether the session
\* specifications carry the clock along: process_frame reads and writes only
\* _timestamp_ms and _camera_matrix, and nothing else reads them.
NoMatrix == [focal |-> 0, cx2 |-> 0, cy2 |-> 0]

ExtractorInit ==
    [_timestamp_ms |-> 0, _camera_matrix |-> NoMatrix, passed |-> 0,
     n_calls |-> 0, n_blank |-> 0, n_trainings |-> 0, trained |-> FALSE,
     followed |-> FALSE]

\* The intrinsic matrix for a frame size: the focal length is the width,
\* the principal point (width / 2, height / 2), kept here in half pixels.
CameraMatrix(w, h) == [focal |-> w, cx2 |-> w, cy2 |-> h]

\* _get_camera_matrix: rebuilt when there is none or when its principal
\* point's x differs from frame_width / 2.
_get_camera_matrix(ext, w, h) ==
    IF ext._camera_matrix = NoMatrix \/ ext._camera_matrix.cx2 # w
    THEN CameraMatrix(w, h)
    ELSE ext._camera_matrix

\* process_frame line 94 moved behind the face test: the clock would stand
\* still on a frame without a face.
Stamp_AfterFace(ext, found) ==
    IF found
    THEN [ext EXCEPT !._timestamp_ms = @ + FrameMs, !.passed = ext._timestamp_ms + FrameMs,
                     !.n_calls = @ + 1]
    ELSE [ext EXCEPT !.passed = ext._timestamp_ms, !.n_calls = @ + 1, !.n_blank = @ + 1]

\* process_frame lines 94-95: the clock advances, then goes to the landmarker.
Stamp(ext, found) ==
    [ext EXCEPT !._timestamp_ms = @ + FrameMs, !.passed = ext._timestamp_ms + FrameMs,
                !.n_calls = @ + 1, !.n_blank = IF found THEN @ ELSE @ + 1]

\* What one process_frame call on a frame of size dims leaves in the
\* estimator: the clock, and the camera matrix when a full face was found.
AfterFrame(ext, dims, found) ==
    LET stamped == Stamp(ext, found)
    IN  IF found
        THEN [stamped EXCEPT !._camera_matrix = _get_camera_matrix(stamped, dims[1], dims[2])]
        ELSE stamped

\* _estimate_head_pose: solvePnP on the camera matrix; its answer is the
\* frame's pose, and (0.0, 0.0) when it reports no success.
_estimate_head_pose(ext, raw) ==
    [ matrix |-> _get_camera_matrix(ext, raw.w, raw.h),
      yaw    |-> IF raw.pose.success THEN raw.pose.yaw ELSE 0,
      pitch  |-> IF raw.pose.success THEN raw.pose.pitch ELSE 0 ]

\* 0.9 * max(0, 1 - (|yaw| + |pitch|) / 60) clipped to [0, 1], in hundredths
\* (exact for an even |yaw| + |pitch|).
PoseConfidence(yaw, pitch) ==
    LET turned == Abs(yaw) + Abs(pitch)
        pose_penalty60 == IF turned >= PoseRange THEN 0 ELSE PoseRange - turned
    IN  (MaxConfidence * pose_penalty60) \div PoseRange

\* Points are pairs of pixel coordinates, counted in 1 / SubPx pixel.
SubPx == 2

Minus(u, v) == << u[1] - v[1], u[2] - v[2] >>

Dot(u, v) == u[1] * v[1] + u[2] * v[2]

\* The fraction num / den (den > 0) in lowest terms.
Frac(num, den) ==
    LET g == Gcd(Abs(num), den)
    IN  [num |-> num \div g, den |-> den \div g]

\* np.clip(num / den, 0, 1)
Clip01(num, den) ==
    IF num <= 0 THEN Frac(0, 1)
    ELSE IF num >= den THEN Frac(1, 1)
    ELSE Frac(num, den)

\* Faulty variant of _normalise_iris: the projections are returned unclipped.
_normalise_iris_Unclipped(iris_center, eye_left, eye_right, eye_top, eye_bottom) ==
    LET eye_horizontal == Minus(eye_right, eye_left)
        eye_vertical == Minus(eye_bottom, eye_top)
        iris_relative == Minus(iris_center, eye_left)
        width2 == Dot(eye_horizontal, eye_horizontal)
        height2 == Dot(eye_vertical, eye_vertical)
    IN  IF width2 < SubPx * SubPx \/ height2 < SubPx * SubPx
        THEN << Frac(1, 2), Frac(1, 2) >>
        ELSE << Frac(Dot(iris_relative, eye_horizontal), width2),
                Frac(Dot(iris_relative, eye_vertical), height2) >>

\* _normalise_iris: (0.5, 0.5) for an eye less than a pixel wide or high
\* (the lengths are compared by their squares); otherwise the iris, taken
\* relative to the first corner, projected on the eye's two axes, divided by
\* the squared lengths and clipped to [0, 1].
_normalise_iris(iris_center, eye_left, eye_right, eye_top, eye_bottom) ==
    LET eye_horizontal == Minus(eye_right, eye_left)
        eye_vertical == Minus(eye_bottom, eye_top)
        iris_relative == Minus(iris_center, eye_left)
        width2 == Dot(eye_horizontal, eye_horizontal)
        height2 == Dot(eye_vertical, eye_vertical)
    IN  IF width2 < SubPx * SubPx \/ height2 < SubPx * SubPx
        THEN << Frac(1, 2), Frac(1, 2) >>
        ELSE << Clip01(Dot(iris_relative, eye_horizontal), width2),
                Clip01(Dot(iris_relative, eye_vertical), height2) >>

\* The normalised iris positions of the two eyes of a frame.
IrisOf(raw) ==
    _normalise_iris(raw.left.iris, raw.left.a, raw.left.b, raw.left.top, raw.left.bottom)
    \o _normalise_iris(raw.right.iris, raw.right.a, raw.right.b,
                       raw.right.top, raw.right.bottom)

\* Faulty variant of process_frame: a face of exactly 478 landmarks is refused.
process_frame_Strict(ext, raw) ==
    LET found == raw.landmarks > FullLandmarks
        pose == _estimate_head_pose(Stamp(ext, found), raw)
    IN  [ ext |-> AfterFrame(ext, << raw.w, raw.h >>, found),
          out |-> IF found
                  THEN Seen(IrisOf(raw) \o << pose.yaw, pose.pitch >>,
                            PoseConfidence(pose.yaw, pose.pitch))
                  ELSE NoFeatures,
          face |-> IF found THEN raw.landmarks ELSE 0 ]

\* process_frame on a camera frame raw: its size, the number of landmarks of
\* the first face (0: no face), the landmarks of the two eyes (iris centre,
\* the two corners in the order they are passed, top and bottom) and the
\* pose solver's answer.  ext is the estimator afterwards, out the features
\* and the confidence returned, face the number of landmarks returned (0:
\* None).
process_frame(ext, raw) ==
    LET found == raw.landmarks >= FullLandmarks
        pose == _estimate_head_pose(Stamp(ext, found), raw)
    IN  [ ext |-> AfterFrame(ext, << raw.w, raw.h >>, found),
          out |-> IF found
                  THEN Seen(IrisOf(raw) \o << pose.yaw, pose.pitch >>,
                            PoseConfidence(pose.yaw, pose.pitch))
                  ELSE NoFeatures,
          face |-> IF found THEN raw.landmarks ELSE 0 ]

\* ------------------------------------------------- CalibrationController
\* The object before its constructor has run.
Unborn ==
    [ born |-> FALSE, gone |-> FALSE, id |-> 0, capture |-> 0, on_cancel |-> FALSE,
      state |-> "instructions", elapsed |-> 0, current_point_idx |-> 0,
      points |-> <<>>, frame_features_buffer |-> <<>>, last_frame |-> FALSE,
      collected_features |-> <<>>, collected_screen_pts |-> <<>>,
      timer |-> FALSE, timer_fired |-> FALSE,
      event_monitor |-> FALSE, escape_monitor |-> FALSE,
      window_visible |-> FALSE, view_phase |-> "instructions",
      view_target |-> << 0, 0 >>, view_target_visible |-> FALSE,
      buttons |-> "none", result |-> "none",
      round |-> 0, train_calls |-> 0, trained_with |-> 0,
      model_at_start |-> EstimatorInit,
      n_on_cancel |-> 0, n_complete_false |-> 0, n_complete_true |-> 0,
      leaked |-> 0 ]

\* __init__ (with _setup_window): the target list is generated, state
\* "instructions", nothing collected.
Construct(id, webcam_capture, on_cancel) ==
    [ Unborn EXCEPT !.born = TRUE, !.id = id, !.capture = webcam_capture,
                    !.on_cancel = on_cancel, !.points = points ]

\* The timer and the monitors a controller holds a handle of.
Handles(c) ==
    (IF c.timer THEN 1 ELSE 0) + (IF c.event_monitor THEN 1 ELSE 0)
    + (IF c.escape_monitor THEN 1 ELSE 0)

\* start(): show the window, state "instructions", the 60 Hz timer and both
\* event monitors.  model_at_start records the estimator's pair at this moment.
\* A handle that is still held is overwritten: its timer or monitor stays
\* active and can no longer be released (leaked counts them).
start(c, est) ==
    [ c EXCEPT !.window_visible = TRUE, !.state = "instructions",
               !.view_phase = "instructions",
               !.timer = TRUE, !.timer_fired = TRUE,
               !.event_monitor = TRUE, !.escape_monitor = TRUE,
               !.model_at_start = est,
               !.leaked = @ + Handles(c) ]

_update_target_position(c) ==
    IF c.current_point_idx < NumPoints
    THEN [ c EXCEPT !.view_target = c.points[c.current_point_idx + 1] ]
    ELSE c

\* _handle_start_event: only in "instructions", and not on Escape.
_handle_start_event(c, keyCode) ==
    IF c.state = "instructions" /\ keyCode # EscapeKeyCode
    THEN [ _update_target_position(
             [ c EXCEPT !.state = "animating", !.elapsed = 0,
                        !.current_point_idx = 0, !.view_phase = "calibrating" ])
           EXCEPT !.event_monitor = FALSE ]
    ELSE c

\* Faulty variant of _collect_frame: a confidence of exactly 0.3 passes.
_collect_frame_GateInclusive(c, frame) ==
    IF ~frame.ret THEN c
    ELSE IF frame.features # None /\ frame.confidence >= ConfidenceGate
         THEN [ c EXCEPT !.last_frame = TRUE,
                         !.frame_features_buffer = Append(@, frame.features) ]
         ELSE [ c EXCEPT !.last_frame = TRUE ]

\* _collect_frame: one read; the features are buffered when a face was found
\* and confidence > 0.3.
_collect_frame(c, frame) ==
    IF ~frame.ret THEN c
    ELSE IF frame.features # None /\ frame.confidence > ConfidenceGate
         THEN [ c EXCEPT !.last_frame = TRUE,
                         !.frame_features_buffer = Append(@, frame.features) ]
         ELSE [ c EXCEPT !.last_frame = TRUE ]

\* _update_webcam_preview: reads a frame only while _last_frame is None.
_update_webcam_preview(c, frame) ==
    IF ~c.last_frame /\ frame.ret THEN [ c EXCEPT !.last_frame = TRUE ] ELSE c

PreviewReads(c) == IF c.last_frame THEN 0 ELSE 1

\* Faulty variants of _finish_point_collection: one that starts the next
\* animation without the pause, one that pairs every sample with the first
\* target, one that averages the whole buffer.  The edge, pairing and
\* aggregation properties below must reject them.
_finish_point_collection_SkipPause(c) ==
    LET buf == c.frame_features_buffer
        keep == Len(buf) >= MinBufferFrames /\ Len(Filtered(buf)) >= MinSurvivors
        c1 == IF keep
              THEN [ c EXCEPT
                       !.collected_features = Append(@, MeanOf(Filtered(buf))),
                       !.collected_screen_pts =
                           Append(@, c.points[c.current_point_idx + 1]) ]
              ELSE c
    IN  [ c1 EXCEPT !.current_point_idx = @ + 1, !.state = "animating",
                    !.elapsed = 0 ]

_finish_point_collection_FirstTarget(c) ==
    LET buf == c.frame_features_buffer
        keep == Len(buf) >= MinBufferFrames /\ Len(Filtered(buf)) >= MinSurvivors
        c1 == IF keep
              THEN [ c EXCEPT
                       !.collected_features = Append(@, MeanOf(Filtered(buf))),
                       !.collected_screen_pts = Append(@, c.points[1]) ]
              ELSE c
    IN  [ c1 EXCEPT !.current_point_idx = @ + 1, !.state = "transitioning",
                    !.elapsed = 0 ]

_finish_point_collection_MeanOfAll(c) ==
    LET buf == c.frame_features_buffer
        keep == Len(buf) >= MinBufferFrames /\ Len(Filtered(buf)) >= MinSurvivors
        c1 == IF keep
              THEN [ c EXCEPT
                       !.collected_features = Append(@, MeanOf(buf)),
                       !.collected_screen_pts =
                           Append(@, c.points[c.current_point_idx + 1]) ]
              ELSE c
    IN  [ c1 EXCEPT !.current_point_idx = @ + 1, !.state = "transitioning",
                    !.elapsed = 0 ]

\* Faulty variant of _finish_point_collection: a target whose sample is
\* rejected is shown again instead of being skipped.
_finish_point_collection_RetryRejected(c) ==
    LET buf == c.frame_features_buffer
        filtered == Filtered(buf)
        keep == Len(buf) >= MinBufferFrames /\ Len(filtered) >= MinSurvivors
    IN  IF keep
        THEN [ c EXCEPT
                 !.collected_features = Append(@, MeanOf(filtered)),
                 !.collected_screen_pts = Append(@, c.points[c.current_point_idx + 1]),
                 !.current_point_idx = @ + 1, !.state = "transitioning",
                 !.elapsed = 0 ]
        ELSE [ c EXCEPT !.state = "transitioning", !.elapsed = 0 ]

\* _finish_point_collection: at least 5 buffered vectors and at least 3
\* survivors give one sample, paired with points[current_point_idx].
_finish_point_collection(c) ==
    LET buf == c.frame_features_buffer
        filtered == Filtered(buf)
        keep == Len(buf) >= MinBufferFrames /\ Len(filtered) >= MinSurvivors
        c1 == IF keep
              THEN [ c EXCEPT
                       !.collected_features = Append(@, MeanOf(filtered)),
                       !.collected_screen_pts =
                           Append(@, c.points[c.current_point_idx + 1]) ]
              ELSE c
    IN  [ c1 EXCEPT !.current_point_idx = @ + 1, !.state = "transitioning",
                    !.elapsed = 0 ]

\* _add_result_buttons / _show_failure: the result screen.
_show_failure(c) ==
    [ c EXCEPT !.view_phase = "results", !.result = "failure",
               !.buttons = "redo_only" ]

_show_success(c) ==
    [ c EXCEPT !.view_phase = "results", !.result = "success", !.buttons = "both" ]

\* Faulty variant of _cleanup: the timer is left scheduled.
_cleanup_KeepTimer(c) ==
    [ c EXCEPT !.event_monitor = FALSE, !.escape_monitor = FALSE,
               !.window_visible = FALSE ]

\* _cleanup: timer and both monitors released, window ordered out.
_cleanup(c) ==
    [ c EXCEPT !.timer = FALSE, !.event_monitor = FALSE, !.escape_monitor = FALSE,
               !.window_visible = FALSE ]

\* np.sqrt(dx ** 2 + dy ** 2) for the offsets whose length is a whole number.
Dist(dx, dy) == CHOOSE r \in 0..(Abs(dx) + Abs(dy)) : r * r = dx * dx + dy * dy

\* The entries (tx, ty, px, py, err) of the samples for which predict returned
\* a pair; preds are the pairs the regressors give for the samples.
RECURSIVE ResultPoints(_, _, _, _)
ResultPoints(est, targets, preds, n) ==
    IF n = 0 THEN << >>
    ELSE LET rest == ResultPoints(est, targets, preds, n - 1)
             t == targets[n]
             q == preds[n]
         IN  IF predict(est, n) = "pair"
             THEN Append(rest, << t[1], t[2], q[1], q[2],
                                  Dist(q[1] - t[1], q[2] - t[2]) >>)
             ELSE rest

RECURSIVE TotalError(_, _)
TotalError(result_points, n) ==
    IF n = 0 THEN 0 ELSE result_points[n][5] + TotalError(result_points, n - 1)

\* Faulty variant of ResultScreen: an error of exactly 5% warns.
ResultScreen_WarnAtFive(est, targets, preds, screen_width) ==
    LET result_points == ResultPoints(est, targets, preds, Len(targets))
        k == Len(result_points)
        total_error == TotalError(result_points, k)
        mean_error == IF k > 0 THEN Frac(total_error, k) ELSE Frac(Inf, 1)
        mean_error_pct == Frac(100 * mean_error.num, mean_error.den * screen_width)
    IN  [ _result_points |-> result_points, _mean_error |-> mean_error,
          _mean_error_pct |-> mean_error_pct,
          _show_warning |-> mean_error_pct.num >= 5 * mean_error_pct.den ]

\* The result screen of _finish_calibration after training: the entries, their
\* mean error in pixels (999 without entries), the mean as a percentage of
\* the screen width, and the warning above 5.0.  The numbers are exact
\* fractions.
ResultScreen(est, targets, preds, screen_width) ==
    LET result_points == ResultPoints(est, targets, preds, Len(targets))
        k == Len(result_points)
        total_error == TotalError(result_points, k)
        mean_error == IF k > 0 THEN Frac(total_error, k) ELSE Frac(Inf, 1)
        mean_error_pct == Frac(100 * mean_error.num, mean_error.den * screen_width)
    IN  [ _result_points |-> result_points, _mean_error |-> mean_error,
          _mean_error_pct |-> mean_error_pct,
          _show_warning |-> mean_error_pct.num > 5 * mean_error_pct.den ]

\* Faulty variant of _finish_calibration: exactly 10 samples count as too few.
_finish_calibration_OffByOne(c, est, cv, fit) ==
    LET n == Len(c.collected_features)
        c0 == [ c EXCEPT !.timer = FALSE ]
        t == train_model(est, n, [session |-> c.id, round |-> c.round], cv, fit)
        c1 == [ c0 EXCEPT !.train_calls = @ + 1, !.trained_with = n ]
    IN  IF n <= MinSamples
        THEN [ c |-> _show_failure(c0), est |-> est, raised |-> FALSE ]
        ELSE [ c |-> IF t.raised THEN c1 ELSE _show_success(c1),
               est |-> [model_x |-> t.model_x, model_y |-> t.model_y],
               raised |-> t.raised ]

\* _finish_calibration: the timer is invalidated first; fewer than 10 samples
\* show the failure screen, otherwise train_model runs on all samples.  When a
\* fit raises, the exception leaves the method before the result screen is set.
_finish_calibration(c, est, cv, fit) ==
    LET n == Len(c.collected_features)
        c0 == [ c EXCEPT !.timer = FALSE ]
        t == train_model(est, n, [session |-> c.id, round |-> c.round], cv, fit)
        c1 == [ c0 EXCEPT !.train_calls = @ + 1, !.trained_with = n ]
    IN  IF n < MinSamples
        THEN [ c |-> _show_failure(c0), est |-> est, raised |-> FALSE ]
        ELSE [ c |-> IF t.raised THEN c1 ELSE _show_success(c1),
               est |-> [model_x |-> t.model_x, model_y |-> t.model_y],
               raised |-> t.raised ]

\* Faulty variant of the state machine step: settling is timed with the
\* animation's duration.
StateStep_EarlySettling(c, est, frame, cv, fit) ==
    CASE c.state = "animating" ->
           [ c |-> IF c.elapsed >= AnimatingTime
                   THEN [ c EXCEPT !.view_target_visible = TRUE,
                                   !.state = "settling", !.elapsed = 0 ]
                   ELSE [ c EXCEPT !.view_target_visible = TRUE ],
             est |-> est, raised |-> FALSE, reads |-> 0, extracts |-> 0 ]
      [] c.state = "settling" ->
           [ c |-> IF c.elapsed >= AnimatingTime
                   THEN [ c EXCEPT !.state = "collecting", !.elapsed = 0,
                                   !.frame_features_buffer = <<>> ]
                   ELSE c,
             est |-> est, raised |-> FALSE, reads |-> 0, extracts |-> 0 ]
      [] c.state = "collecting" ->
           [ c |-> IF c.elapsed >= CollectingTime
                   THEN _finish_point_collection(_collect_frame(c, frame))
                   ELSE _collect_frame(c, frame),
             est |-> est, raised |-> FALSE,
             reads |-> 1, extracts |-> IF frame.ret THEN 1 ELSE 0 ]
      [] c.state = "transitioning" ->
           LET c0 == [ c EXCEPT !.view_target_visible = FALSE ]
               fin == _finish_calibration(c0, est, cv, fit)
           IN  IF c.elapsed < TransitioningTime
               THEN [ c |-> c0, est |-> est, raised |-> FALSE,
                      reads |-> 0, extracts |-> 0 ]
               ELSE IF c.current_point_idx < NumPoints
               THEN [ c |-> _update_target_position(
                              [ c0 EXCEPT !.state = "animating", !.elapsed = 0 ]),
                      est |-> est, raised |-> FALSE, reads |-> 0, extracts |-> 0 ]
               ELSE [ c |-> fin.c, est |-> fin.est, raised |-> fin.raised,
                      reads |-> 0, extracts |-> 0 ]
      [] OTHER ->
           [ c |-> c, est |-> est, raised |-> FALSE, reads |-> 0, extracts |-> 0 ]

\* Faulty variant of the state machine step: the buffer is not emptied when
\* collecting begins.
StateStep_KeepBuffer(c, est, frame, cv, fit) ==
    CASE c.state = "animating" ->
           [ c |-> IF c.elapsed >= AnimatingTime
                   THEN [ c EXCEPT !.view_target_visible = TRUE,
                                   !.state = "settling", !.elapsed = 0 ]
                   ELSE [ c EXCEPT !.view_target_visible = TRUE ],
             est |-> est, raised |-> FALSE, reads |-> 0, extracts |-> 0 ]
      [] c.state = "settling" ->
           [ c |-> IF c.elapsed >= SettlingTime
                   THEN [ c EXCEPT !.state = "collecting", !.elapsed = 0 ]
                   ELSE c,
             est |-> est, raised |-> FALSE, reads |-> 0, extracts |-> 0 ]
      [] c.state = "collecting" ->
           [ c |-> IF c.elapsed >= CollectingTime
                   THEN _finish_point_collection(_collect_frame(c, frame))
                   ELSE _collect_frame(c, frame),
             est |-> est, raised |-> FALSE,
             reads |-> 1, extracts |-> IF frame.ret THEN 1 ELSE 0 ]
      [] c.state = "transitioning" ->
           LET c0 == [ c EXCEPT !.view_target_visible = FALSE ]
               fin == _finish_calibration(c0, est, cv, fit)
           IN  IF c.elapsed < TransitioningTime
               THEN [ c |-> c0, est |-> est, raised |-> FALSE,
                      reads |-> 0, extracts |-> 0 ]
               ELSE IF c.current_point_idx < NumPoints
               THEN [ c |-> _update_target_position(
                              [ c0 EXCEPT !.state = "animating", !.elapsed = 0 ]),
                      est |-> est, raised |-> FALSE, reads |-> 0, extracts |-> 0 ]
               ELSE [ c |-> fin.c, est |-> fin.est, raised |-> fin.raised,
                      reads |-> 0, extracts |-> 0 ]
      [] OTHER ->
           [ c |-> c, est |-> est, raised |-> FALSE, reads |-> 0, extracts |-> 0 ]

\* tick_: the state machine step on (now - state_start_time) = c.elapsed,
\* then _update_webcam_preview.  frame is what the read of _collect_frame
\* delivers, pframe what the read of _update_webcam_preview delivers.
StateStep(c, est, frame, cv, fit) ==
    CASE c.state = "animating" ->
           [ c |-> IF c.elapsed >= AnimatingTime
                   THEN [ c EXCEPT !.view_target_visible = TRUE,
                                   !.state = "settling", !.elapsed = 0 ]
                   ELSE [ c EXCEPT !.view_target_visible = TRUE ],
             est |-> est, raised |-> FALSE, reads |-> 0, extracts |-> 0 ]
      [] c.state = "settling" ->
           [ c |-> IF c.elapsed >= SettlingTime
                   THEN [ c EXCEPT !.state = "collecting", !.elapsed = 0,
                                   !.frame_features_buffer = <<>> ]
                   ELSE c,
             est |-> est, raised |-> FALSE, reads |-> 0, extracts |-> 0 ]
      [] c.state = "collecting" ->
           [ c |-> IF c.elapsed >= CollectingTime
                   THEN _finish_point_collection(_collect_frame(c, frame))
                   ELSE _collect_frame(c, frame),
             est |-> est, raised |-> FALSE,
             reads |-> 1, extracts |-> IF frame.ret THEN 1 ELSE 0 ]
      [] c.state = "transitioning" ->
           LET c0 == [ c EXCEPT !.view_target_visible = FALSE ]
               fin == _finish_calibration(c0, est, cv, fit)
           IN  IF c.elapsed < TransitioningTime
               THEN [ c |-> c0, est |-> est, raised |-> FALSE,
                      reads |-> 0, extracts |-> 0 ]
               ELSE IF c.current_point_idx < NumPoints
               THEN [ c |-> _update_target_position(
                              [ c0 EXCEPT !.state = "animating", !.elapsed = 0 ]),
                      est |-> est, raised |-> FALSE, reads |-> 0, extracts |-> 0 ]
               ELSE [ c |-> fin.c, est |-> fin.est, raised |-> fin.raised,
                      reads |-> 0, extracts |-> 0 ]
      [] OTHER ->
           [ c |-> c, est |-> est, raised |-> FALSE, reads |-> 0, extracts |-> 0 ]

tick_(c, est, frame, pframe, cv, fit) ==
    LET s == StateStep(c, est, frame, cv, fit)
    IN  IF s.raised
        THEN [ c |-> s.c, est |-> s.est, reads |-> s.reads, extracts |-> s.extracts ]
        ELSE [ c |-> _update_webcam_preview(s.c, pframe), est |-> s.est,
               reads |-> s.reads + PreviewReads(s.c), extracts |-> s.extracts ]

\* ------------------------------------------------------------ AppDelegate
\* AppDelegate.init: no capture, no calibration, not tracking.
AppInit ==
    [ launched |-> FALSE, terminated |-> FALSE, capture |-> 0, calibration |-> 0,
      tracking_timer |-> FALSE, tracking_fired |-> FALSE, is_tracking |-> FALSE,
      n_sessions |-> 0 ]

_stop_tracking(a) == [ a EXCEPT !.is_tracking = FALSE, !.tracking_timer = FALSE ]

_start_tracking(a) ==
    [ a EXCEPT !.is_tracking = TRUE, !.tracking_timer = TRUE, !.tracking_fired = TRUE ]

\* applicationWillTerminate_ after terminate_: the process ends.
Terminate(a) == [ _stop_tracking(a) EXCEPT !.terminated = TRUE ]

\* _start_calibration: stop tracking, construct a controller on the current
\* capture (on_complete only, no on_cancel), start it.
_start_calibration(a, cs, est) ==
    LET id == a.n_sessions + 1
    IN  [ app |-> [ _stop_tracking(a) EXCEPT !.calibration = id, !.n_sessions = id ],
          ctl |-> [ cs EXCEPT ![id] = start(Construct(id, a.capture, FALSE), est) ] ]

\* _on_calibration_complete(success): tracking on success; otherwise the
\* alert, whose answer is Retry (a new calibration) or Quit.
_on_calibration_complete(a, cs, est, success, retry) ==
    LET a0 == [ a EXCEPT !.calibration = 0 ]
    IN  IF success THEN [ app |-> _start_tracking(a0), ctl |-> cs ]
        ELSE IF retry THEN _start_calibration(a0, cs, est)
        ELSE [ app |-> Terminate(a0), ctl |-> cs ]

\* trackingTick_: nothing unless tracking on an open capture; one read; the
\* frame goes to process_frame and its features to predict.  Without
\* features or without a prediction the overlay is told that no face was
\* detected, with confidence 0.  frame is what the read and the extractor
\* deliver.
trackingTick_(a, est, frame) ==
    IF ~a.is_tracking \/ a.capture = 0
    THEN [reads |-> 0, extracts |-> 0, report |-> << >>]
    ELSE IF ~frame.ret
    THEN [reads |-> 1, extracts |-> 0, report |-> << >>]
    ELSE LET prediction == IF frame.features # None
                           THEN predict(est, frame.features) ELSE "None"
         IN  [ reads |-> 1, extracts |-> 1,
               report |->
                 CASE prediction = "pair" ->
                        [face_detected |-> TRUE, confidence |-> frame.confidence,
                         raised |-> FALSE]
                   [] prediction = "None" ->
                        [face_detected |-> FALSE, confidence |-> 0, raised |-> FALSE]
                   [] OTHER ->
                        [face_detected |-> FALSE, confidence |-> 0, raised |-> TRUE] ]

Running == app.launched /\ ~app.terminated

\* The size of the frames the camera delivers (the default resolution).
CameraDims == << 640, 480 >>

\* The extractor after a callback that ran process_frame k times (0 or 1) on
\* a frame that the extractor answered with frame.
Extracted(ext, k, frame) ==
    IF ~ext.followed \/ k = 0 THEN ext
    ELSE AfterFrame(ext, CameraDims, frame.features # None)

CallsLeft == extractor.followed => extractor.n_calls < MaxCalls

\* The session state the specification speaks of: "results" is the result
\* screen (view._phase), otherwise the controller's state field.
SessionState(c) == IF c.view_phase = "results" THEN "results" ELSE c.state

\* mid is the state in which the start monitors left the controller before
\* the escape monitor ran.
Call(kind, who, from) ==
    [kind |-> kind, who |-> who, from |-> from, mid |-> "-",
     reads |-> 0, extracts |-> 0, args |-> << >>, result |-> << >>]

Idle == Call("none", 0, "-")

\* A read on a released capture returns (False, None).
ReadFrom(cap, frame) == IF cap \in camera.released THEN ReadFailure ELSE frame

\* ---------------------------------------------------------------- actions
Init ==
    /\ app = AppInit
    /\ estimator = EstimatorInit
    /\ extractor = ExtractorInit
    /\ ctl = [s \in Sessions |-> Unborn]
    /\ camera = [opened |-> 0, released |-> {}]
    /\ scene \in [now : Scenes, changes : {0}]
    /\ last_call = Idle

\* applicationDidFinishLaunching_: _open_camera, then _start_calibration;
\* when the camera does not open the error dialog ends the application.
Launch(open_ok) ==
    /\ ~app.launched
    /\ camera' = [camera EXCEPT !.opened = @ + 1]
    /\ LET a == [app EXCEPT !.launched = TRUE, !.capture = camera.opened + 1]
           r == _start_calibration(a, ctl, estimator)
       IN  IF open_ok
           THEN app' = r.app /\ ctl' = r.ctl
           ELSE app' = Terminate(a) /\ ctl' = ctl
    /\ last_call' = Idle
    /\ UNCHANGED << estimator, extractor, scene >>

\* A key or a click: every installed start monitor gets the event.
BeginEvent(keyCode) ==
    /\ Running
    /\ \E s \in Sessions : ctl[s].event_monitor /\ ctl[s].state = "instructions"
    /\ ctl' = [s \in Sessions |->
                 IF ctl[s].event_monitor THEN _handle_start_event(ctl[s], keyCode)
                 ELSE ctl[s]]
    /\ last_call' = Call("begin", 0, "instructions")
    /\ UNCHANGED << app, estimator, extractor, camera, scene >>

\* A controller that holds no timer, no monitor and no window after its
\* callback has been called is referenced by nothing: only the record of its
\* notifications is kept.
Forget(c) ==
    IF c.timer \/ c.event_monitor \/ c.escape_monitor \/ c.window_visible THEN c
    ELSE [ Unborn EXCEPT !.born = TRUE, !.id = c.id, !.gone = TRUE,
                         !.on_cancel = c.on_cancel,
                         !.n_on_cancel = c.n_on_cancel,
                         !.n_complete_false = c.n_complete_false,
                         !.n_complete_true = c.n_complete_true ]

\* Faulty variant of cancel: the session ends without any notification.
cancel_Silent(c) == Forget(_cleanup(c))

\* cancel(): _cleanup, then on_cancel() if given, else on_complete(False).
cancel(c) ==
    IF c.on_cancel
    THEN Forget([ _cleanup(c) EXCEPT !.n_on_cancel = @ + 1 ])
    ELSE Forget([ _cleanup(c) EXCEPT !.n_complete_false = @ + 1 ])

\* Escape: the start monitors ignore key code 53, _handle_escape_event of
\* one controller cancels and consumes the event.  retry is the answer to
\* the "Calibration Failed" alert of _on_calibration_complete(False).
EscapeKey(s, retry) ==
    /\ Running
    /\ ctl[s].escape_monitor
    /\ retry => app.n_sessions < MaxSessions
    /\ LET cs == [ctl EXCEPT ![s] = cancel(_handle_start_event(ctl[s], EscapeKeyCode))]
           r == _on_calibration_complete(app, cs, estimator, FALSE, retry)
       IN  IF ctl[s].on_cancel
           THEN app' = app /\ ctl' = cs
           ELSE app' = r.app /\ ctl' = r.ctl
    /\ last_call' = [ Call("escape", s, SessionState(ctl[s])) EXCEPT
                        !.mid = _handle_start_event(ctl[s], EscapeKeyCode).state ]
    /\ UNCHANGED << estimator, extractor, camera, scene >>

\* The calibration timer of controller s fires: tick_.
Tick(s, frame, pframe, cv, fit) ==
    /\ Running
    /\ ctl[s].timer /\ ~ctl[s].timer_fired
    /\ CallsLeft
    /\ \E r \in { tick_(ctl[s], estimator, ReadFrom(ctl[s].capture, frame),
                          ReadFrom(ctl[s].capture, pframe), cv, fit) } :
           /\ ctl' = [ctl EXCEPT ![s] = [r.c EXCEPT !.timer_fired = TRUE]]
           /\ estimator' = r.est
           /\ last_call' = [ Call("tick", s, SessionState(ctl[s]))
                              EXCEPT !.reads = r.reads, !.extracts = r.extracts ]
           /\ extractor' = Extracted(extractor, r.extracts,
                                      ReadFrom(ctl[s].capture, frame))
    /\ UNCHANGED << app, camera, scene >>

\* trackingTick_: nothing unless tracking with a capture; else one read and,
\* when it succeeds, one process_frame.
TrackingTick(frame) ==
    /\ Running
    /\ app.tracking_timer /\ ~app.tracking_fired
    /\ CallsLeft
    /\ app' = [app EXCEPT !.tracking_fired = TRUE]
    /\ \E r \in { trackingTick_(app, estimator,
                                IF app.capture = 0 THEN ReadFailure
                                ELSE ReadFrom(app.capture, frame)) } :
           /\ last_call' = [ Call("trackingTick", 0, "-") EXCEPT
                               !.reads = r.reads, !.extracts = r.extracts,
                               !.result = r.report ]
           /\ extractor' = Extracted(extractor, r.extracts, frame)
    /\ UNCHANGED << estimator, ctl, camera, scene >>

\* The run loop: once every scheduled timer has fired, dt time units pass.
Advance(dt) ==
    /\ Running
    /\ app.tracking_timer \/ \E s \in Sessions : ctl[s].timer
    /\ \A s \in Sessions : ctl[s].timer => ctl[s].timer_fired
    /\ app.tracking_timer => app.tracking_fired
    /\ ctl' = [s \in Sessions |->
                 IF ctl[s].timer
                 THEN [ctl[s] EXCEPT !.timer_fired = FALSE,
                         !.elapsed = IF ctl[s].state = "instructions" THEN @
                                     ELSE Min(ElapsedCap, @ + dt)]
                 ELSE ctl[s]]
    /\ app' = [app EXCEPT !.tracking_fired = FALSE]
    /\ last_call' = Idle
    /\ UNCHANGED << estimator, extractor, camera, scene >>

\* start() orders the controller's full-screen window to the front, so of
\* several visible windows the one started last receives the clicks.  A
\* controller is restarted (Redo) only while it is in front, and a new
\* controller gets the largest id, so the order of the windows is the order
\* of the ids.
Frontmost(s) ==
    /\ ctl[s].window_visible
    /\ \A t \in Sessions : ctl[t].window_visible => t <= s

\* _on_accept: _cleanup, on_complete(True).
_on_accept(c) == Forget([ _cleanup(c) EXCEPT !.n_complete_true = @ + 1 ])

Accept(s) ==
    /\ Running
    /\ Frontmost(s) /\ ctl[s].buttons = "both"
    /\ LET cs == [ctl EXCEPT ![s] = _on_accept(@)]
           r == _on_calibration_complete(app, cs, estimator, TRUE, FALSE)
       IN  app' = r.app /\ ctl' = r.ctl
    /\ last_call' = Call("accept", s, SessionState(ctl[s]))
    /\ UNCHANGED << estimator, extractor, camera, scene >>

\* Faulty variant of _on_redo: the round is restarted without _cleanup.
_on_redo_NoCleanup(c, est) ==
    start([ c EXCEPT !.collected_features = <<>>,
                     !.collected_screen_pts = <<>>,
                     !.current_point_idx = 0,
                     !.view_phase = "instructions",
                     !.view_target = << 0, 0 >>,
                     !.view_target_visible = FALSE,
                     !.buttons = "none", !.result = "none",
                     !.round = @ + 1, !.train_calls = 0,
                     !.trained_with = 0 ], est)

\* Faulty variant of _on_redo: the samples of the round are kept.
_on_redo_KeepSamples(c, est) ==
    start([ _cleanup(c) EXCEPT !.current_point_idx = 0,
                               !.view_phase = "instructions",
                               !.view_target = << 0, 0 >>,
                               !.view_target_visible = FALSE,
                               !.buttons = "none", !.result = "none",
                               !.round = @ + 1, !.train_calls = 0,
                               !.trained_with = 0 ], est)

\* _on_redo: _cleanup, samples and index reset, a new window and view, start().
_on_redo(c, est) ==
    start([ _cleanup(c) EXCEPT !.collected_features = <<>>,
                               !.collected_screen_pts = <<>>,
                               !.current_point_idx = 0,
                               !.view_phase = "instructions",
                               !.view_target = << 0, 0 >>,
                               !.view_target_visible = FALSE,
                               !.buttons = "none", !.result = "none",
                               !.round = @ + 1, !.train_calls = 0,
                               !.trained_with = 0 ], est)

Redo(s) ==
    /\ Running
    /\ Frontmost(s) /\ ctl[s].buttons \in { "both", "redo_only" }
    /\ ctl[s].round < MaxRedo
    /\ ctl' = [ctl EXCEPT ![s] = _on_redo(@, estimator)]
    /\ last_call' = Call("redo", s, SessionState(ctl[s]))
    /\ UNCHANGED << app, estimator, extractor, camera, scene >>

\* startCalibration_ (menu Tracking > Start Calibration, Cmd+R).
StartCalibrationMenu ==
    /\ Running
    /\ app.n_sessions < MaxSessions
    /\ LET r == _start_calibration(app, ctl, estimator)
       IN  app' = r.app /\ ctl' = r.ctl
    /\ last_call' = Idle
    /\ UNCHANGED << estimator, extractor, camera, scene >>

\* _on_settings_changed with a changed camera setting: _switch_camera.
SwitchCamera(open_ok) ==
    /\ Running
    /\ camera.opened < MaxCaptures
    /\ app.is_tracking /\ open_ok => app.n_sessions < MaxSessions
    /\ camera' = [opened |-> camera.opened + 1,
                  released |-> IF app.capture # 0
                               THEN camera.released \cup { app.capture }
                               ELSE camera.released]
    /\ LET a == [_stop_tracking(app) EXCEPT !.capture = camera.opened + 1]
           r == _start_calibration(a, ctl, estimator)
       IN  IF ~open_ok THEN app' = Terminate(a) /\ ctl' = ctl
           ELSE IF app.is_tracking THEN app' = r.app /\ ctl' = r.ctl
           ELSE app' = a /\ ctl' = ctl
    /\ last_call' = Idle
    /\ UNCHANGED << estimator, extractor, scene >>

\* What the camera sees changes (the user turns away, leaves, comes back).
SceneChange(sc) ==
    /\ Running
    /\ scene.changes < MaxSceneChanges
    /\ sc # scene.now
    /\ scene' = [now |-> sc, changes |-> scene.changes + 1]
    /\ UNCHANGED << app, estimator, extractor, ctl, camera, last_call >>

\* What the camera sees changes, any number of times.
Glance(sc) ==
    /\ Running
    /\ sc # scene.now
    /\ scene' = [scene EXCEPT !.now = sc]
    /\ UNCHANGED << app, estimator, extractor, ctl, camera, last_call >>

\* ---------------------------------------------------------- specifications
NoWindow == \A s \in Sessions : ~ctl[s].window_visible

Dts == { 6 }

\* Cross-validation outcomes and fits of a run in which no library call raises.
QuietCv == { cv \in CvOutcomes : ~cv.gp_raises }

\* One calibration window at a time: the menu and the settings window are
\* used only while no calibration window is on screen.
Next ==
    \/ \E ok \in BOOLEAN : Launch(ok)
    \/ \E k \in { 0, 36 } : BeginEvent(k)
    \/ \E s \in Sessions, retry \in BOOLEAN : EscapeKey(s, retry)
    \/ \E s \in Sessions, cv \in QuietCv :
          Tick(s, SceneFrame(scene.now), SceneFrame(scene.now), cv, "ok")
    \/ TrackingTick(SceneFrame(scene.now))
    \/ \E dt \in Dts : Advance(dt)
    \/ \E s \in Sessions : Accept(s)
    \/ \E s \in Sessions : Redo(s)
    \/ NoWindow /\ StartCalibrationMenu
    \/ \E ok \in BOOLEAN : NoWindow /\ SwitchCamera(ok)
    \/ \E sc \in Scenes : SceneChange(sc)

Spec == Init /\ [][Next]_vars

\* The application as the menu leaves it: Start Calibration (Cmd+R) and the
\* settings window are available also while a calibration window is on
\* screen.  Here they are used while no calibration timer is scheduled, that
\* is before a session, after it, or on its result screen.  The camera sees
\* the user's face throughout.
NoCalibrationTimer == \A s \in Sessions : ~ctl[s].timer

InitApp ==
    /\ Init
    /\ scene.now = "good"

NextApp ==
    \/ \E ok \in BOOLEAN : Launch(ok)
    \/ \E k \in { 0, 36 } : BeginEvent(k)
    \/ \E s \in Sessions, retry \in BOOLEAN : EscapeKey(s, retry)
    \/ \E s \in Sessions, cv \in QuietCv :
          Tick(s, SceneFrame(scene.now), SceneFrame(scene.now), cv, "ok")
    \/ TrackingTick(SceneFrame(scene.now))
    \/ \E dt \in Dts : Advance(dt)
    \/ \E s \in Sessions : Accept(s)
    \/ \E s \in Sessions : Redo(s)
    \/ NoCalibrationTimer /\ StartCalibrationMenu
    \/ \E ok \in BOOLEAN : NoCalibrationTimer /\ SwitchCamera(ok)

SpecApp == InitApp /\ [][NextApp]_vars

\* The first target of the first session, ticked every WindowDt time units so
\* that its collecting window holds six frames.  In SpecGate the camera's view
\* changes freely between the ticks; in SpecAgg every frame is any of AggFrames.
EqualCv == [ridge |-> 1, gp |-> 1, gp_raises |-> FALSE]

FirstTarget == \A s \in Sessions : ctl[s].current_point_idx = 0

NextGate ==
    /\ FirstTarget
    /\ \/ \E ok \in BOOLEAN : Launch(ok)
       \/ BeginEvent(36)
       \/ \E s \in Sessions :
             Tick(s, SceneFrame(scene.now), SceneFrame(scene.now), EqualCv, "ok")
       \/ Advance(WindowDt)
       \/ \E sc \in GateScenes : Glance(sc)

SpecGate == InitApp /\ [][NextGate]_vars

NextAgg ==
    /\ FirstTarget
    /\ \/ \E ok \in BOOLEAN : Launch(ok)
       \/ BeginEvent(36)
       \/ \E s \in Sessions, f \in AggFrames : Tick(s, f, f, EqualCv, "ok")
       \/ Advance(WindowDt)

SpecAgg == InitApp /\ [][NextAgg]_vars

\* The run loop is fair: a scheduled timer that is due fires, and time passes
\* once every scheduled timer has fired.  TickDue(s) is the enabling
\* condition of Tick(s, ...), so the first conjunct is WF_vars of the tick of
\* each controller with ENABLED written out.
TickDue(s) == Running /\ ctl[s].timer /\ ~ctl[s].timer_fired /\ CallsLeft

FairTicks ==
    /\ \A s \in Sessions :
          \/ []<>(~TickDue(s))
          \/ []<><<Tick(s, SceneFrame(scene.now), SceneFrame(scene.now),
                        EqualCv, "ok")>>_vars
    /\ WF_vars(\E dt \in Dts : Advance(dt))

\* One application run with its calibration session: begun, cancelled with
\* Escape (and Quit) at any time, redone or accepted on the result screen,
\* then tracking; the camera's view may change.
NextFair ==
    \/ \E ok \in BOOLEAN : Launch(ok)
    \/ BeginEvent(36)
    \/ \E s \in Sessions : EscapeKey(s, FALSE)
    \/ \E s \in Sessions :
          Tick(s, SceneFrame(scene.now), SceneFrame(scene.now), EqualCv, "ok")
    \/ TrackingTick(SceneFrame(scene.now))
    \/ \E dt \in Dts : Advance(dt)
    \/ \E s \in Sessions : Accept(s)
    \/ \E s \in Sessions : Redo(s)
    \/ \E sc \in Scenes : SceneChange(sc)

SpecFair == Init /\ [][NextFair]_vars /\ FairTicks

\* ------------------------------------------------ the estimator by itself
\* The GazeEstimator object driven through its methods in any order:
\* train_model on n samples, predict, process_frame on a camera frame, and
\* the tracking callback of an application that is tracking.
SampleCounts == { 0, 1, 2, 50, 51 }

\* What the final fits can do: fitting to no sample raises in the first fit
\* (the feature array is not two-dimensional); a Gaussian-process fit may
\* fail numerically; a ridge fit to one sample or more returns.
PossibleFits(n, family) ==
    IF n = 0 THEN { "x" }
    ELSE IF family = "gp" THEN FitOutcomes
    ELSE { "ok" }

FrameSizes == { << 640, 480 >>, << 640, 360 >>, << 1280, 720 >> }

Poses ==
    { [success |-> FALSE, yaw |-> 0, pitch |-> 0],
      [success |-> TRUE, yaw |-> 0, pitch |-> 0],
      [success |-> TRUE, yaw |-> 10, pitch |-> -4],
      [success |-> TRUE, yaw |-> -20, pitch |-> 20] }

\* An open eye, 20 pixels wide and 8 high, the iris in its middle, and an
\* eye whose lids have met.
OpenEye ==
    [iris |-> << 20, 8 >>, a |-> << 0, 8 >>, b |-> << 40, 8 >>,
     top |-> << 20, 0 >>, bottom |-> << 20, 16 >>]

ClosedEye == [OpenEye EXCEPT !.top = << 20, 8 >>, !.bottom = << 20, 8 >>]

RawFrames ==
    { [w |-> d[1], h |-> d[2], landmarks |-> FullLandmarks,
       left |-> OpenEye, right |-> e, pose |-> p] :
         d \in FrameSizes, p \in Poses, e \in { OpenEye, ClosedEye } }
    \cup
    { [w |-> d[1], h |-> d[2], landmarks |-> k,
       left |-> OpenEye, right |-> OpenEye,
       pose |-> [success |-> TRUE, yaw |-> 0, pitch |-> 0]] :
         d \in FrameSizes, k \in { 0, FullLandmarks - 10, FullLandmarks - 1 } }

Train(n, cv, fit) ==
    /\ extractor.n_trainings < MaxTrainings
    /\ fit \in PossibleFits(n, SelectFamily(n, cv))
    /\ \E r \in { train_model(estimator, n,
                              [session |-> 0, round |-> extractor.n_trainings + 1],
                              cv, fit) } :
           /\ estimator' = [model_x |-> r.model_x, model_y |-> r.model_y]
           /\ extractor' = [extractor EXCEPT !.n_trainings = @ + 1,
                                            !.trained = @ \/ ~r.raised]
           /\ last_call' = [ Call("train_model", 0, "-") EXCEPT
                               !.args = [n |-> n, cv |-> cv, fit |-> fit],
                               !.result = [raised |-> r.raised] ]
    /\ UNCHANGED << app, ctl, camera, scene >>

Predict ==
    /\ last_call' = [ Call("predict", 0, "-") EXCEPT
                        !.result = predict(estimator, GoodFeatures) ]
    /\ UNCHANGED << app, estimator, extractor, ctl, camera, scene >>

ProcessFrame(raw) ==
    /\ extractor.n_calls < MaxApiCalls
    /\ \E r \in { process_frame(extractor, raw) } :
           /\ extractor' = r.ext
           /\ last_call' = [ Call("process_frame", 0, "-") EXCEPT
                               !.extracts = 1, !.args = raw,
                               !.result = [features |-> r.out.features,
                                           confidence |-> r.out.confidence,
                                           face |-> r.face] ]
    /\ UNCHANGED << app, estimator, ctl, camera, scene >>

\* trackingTick_ while tracking on an open capture that delivers raw.
TrackOnce(raw) ==
    /\ extractor.n_calls < MaxApiCalls
    /\ \E r \in { process_frame(extractor, raw) } :
           /\ extractor' = r.ext
           /\ \E t \in { trackingTick_([app EXCEPT !.is_tracking = TRUE, !.capture = 1],
                                       estimator, r.out) } :
                 last_call' = [ Call("trackingTick", 0, "-") EXCEPT
                                  !.reads = t.reads, !.extracts = t.extracts,
                                  !.args = raw, !.result = t.report ]
    /\ UNCHANGED << app, estimator, ctl, camera, scene >>

NextEst ==
    \/ \E n \in SampleCounts, cv \in CvOutcomes, fit \in FitOutcomes : Train(n, cv, fit)
    \/ Predict
    \/ \E raw \in RawFrames : ProcessFrame(raw)
    \/ \E raw \in RawFrames : TrackOnce(raw)

SpecEst == InitApp /\ [][NextEst]_vars

\* ------------------------------------------ the session with its extractor
\* One calibration session and the tracking after it, with the estimator's
\* clock and camera matrix carried along; the user's face may leave the
\* camera's view.
InitStamp ==
    /\ app = AppInit
    /\ estimator = EstimatorInit
    /\ extractor = [ExtractorInit EXCEPT !.followed = TRUE]
    /\ ctl = [s \in Sessions |-> Unborn]
    /\ camera = [opened |-> 0, released |-> {}]
    /\ scene = [now |-> "good", changes |-> 0]
    /\ last_call = Idle

NextStamp ==
    \/ Launch(TRUE)
    \/ BeginEvent(36)
    \/ \E s \in Sessions :
          Tick(s, SceneFrame(scene.now), SceneFrame(scene.now), EqualCv, "ok")
    \/ TrackingTick(SceneFrame(scene.now))
    \/ \E dt \in Dts : Advance(dt)
    \/ \E s \in Sessions : Accept(s)
    \/ \E sc \in { "good", "noface" } : SceneChange(sc)

SpecStamp == InitStamp /\ [][NextStamp]_vars

\* ------------------------------------------------ properties of Spec
Live(c) == c.born /\ ~c.gone

\* The edges of the session state machine and the event of each.
ListedEdge(c, d, kind) ==
    LET a == SessionState(c)
        b == SessionState(d)
    IN  \/ a = "instructions" /\ b = "animating" /\ kind = "begin"
        \/ a = "animating" /\ b = "settling" /\ kind = "tick"
        \/ a = "settling" /\ b = "collecting" /\ kind = "tick"
        \/ a = "collecting" /\ b = "transitioning" /\ kind = "tick"
        \/ a = "transitioning" /\ b = "animating" /\ kind = "tick"
             /\ c.current_point_idx < NumPoints
        \/ a = "transitioning" /\ b = "results" /\ kind = "tick"
             /\ c.current_point_idx >= NumPoints

RedoEdge(c, d, kind) ==
    SessionState(c) = "results" /\ SessionState(d) = "instructions" /\ kind = "redo"

\* C1 as stated: while a session is not cancelled, its state changes only
\* along instructions->animating (begin event), animating->settling,
\* settling->collecting, collecting->transitioning, transitioning->animating
\* (targets remain) and transitioning->results (none remain).
C1_OnlyListedEdges ==
    [][ \A s \in Sessions :
          (Live(ctl[s]) /\ Live(ctl'[s])
             /\ SessionState(ctl'[s]) # SessionState(ctl[s]))
          => ListedEdge(ctl[s], ctl'[s], last_call'.kind) ]_vars

\* C1 amended: the state of a session that is not cancelled changes only along
\* the six listed edges or, on a click on Redo, from results back to
\* instructions.
C1_ListedEdgesAndRedo ==
    [][ \A s \in Sessions :
          (Live(ctl[s]) /\ Live(ctl'[s])
             /\ SessionState(ctl'[s]) # SessionState(ctl[s]))
          => \/ ListedEdge(ctl[s], ctl'[s], last_call'.kind)
             \/ RedoEdge(ctl[s], ctl'[s], last_call'.kind) ]_vars

\* A session that was redone and has reached the result screen a second time:
\* every edge, the Redo edge included, has been taken.
C1_Witness ==
    \E s \in Sessions :
       Live(ctl[s]) /\ ctl[s].round = 1 /\ SessionState(ctl[s]) = "results"

NineSamplesFail ==
    \E s \in Sessions :
       /\ Live(ctl[s]) /\ SessionState(ctl[s]) = "results"
       /\ Len(ctl[s].collected_features) = 9
       /\ ctl[s].result = "failure" /\ ctl[s].train_calls = 0

Notifications(c) == c.n_on_cancel + c.n_complete_false

EscapeWhileCollecting ==
    last_call.kind = "escape" /\ last_call.from = "collecting"

\* C4 as stated: when a session ends cancelled, the estimator's model pair is
\* the pair it held when the session started.
C4_CancelKeepsModel ==
    [][ \A s \in Sessions :
          (Live(ctl[s]) /\ ctl'[s].gone
             /\ Notifications(ctl'[s]) = Notifications(ctl[s]) + 1)
          => estimator' = ctl[s].model_at_start ]_vars

\* C6 as stated: no timer callback reads more than one frame or runs the
\* landmark extractor more than once.
C6_OneReadPerTick == last_call.reads <= 1 /\ last_call.extracts <= 1

\* C5 as stated: over every sequence of Start Calibration, Accept, Redo,
\* cancel and settings changes, the tracking timer is never scheduled while a
\* calibration timer is scheduled.
C5_TimersExclusive ==
    ~( app.tracking_timer /\ \E s \in Sessions : ctl[s].timer )

\* C7: a tick in collecting appends the frame's feature vector to the buffer
\* exactly when the read succeeded, features were returned and the confidence
\* is above 0.3; otherwise the buffer is unchanged and the session goes on.
C7_AppendIffConfident ==
    [][ \A s \in Sessions :
          (ctl[s].state = "collecting" /\ ~ctl[s].timer_fired /\ ctl'[s].timer_fired)
          => LET f == ReadFrom(ctl[s].capture, SceneFrame(scene.now))
                 buf == ctl[s].frame_features_buffer
                 accepted == f.ret /\ f.features # None /\ f.confidence > 30
             IN  /\ accepted => ctl'[s].frame_features_buffer = Append(buf, f.features)
                 /\ ~accepted => ctl'[s].frame_features_buffer = buf
                 /\ Live(ctl'[s]) /\ ctl'[s].timer
                 /\ ctl'[s].state \in { "collecting", "transitioning" } ]_vars

\* The window has ended with three of its six frames buffered, the last frame
\* being one of confidence exactly 0.30.
C7_Witness ==
    /\ ctl[1].state = "transitioning" /\ ctl[1].timer_fired
    /\ scene.now = "turned30"
    /\ Len(ctl[1].frame_features_buffer) = 3
    /\ ctl[1].frame_features_buffer[3] = TiltFeatures

\* The score of the specification, per dimension, on n-fold scaled integers:
\* |v - mean| / (std + eps) compared with 2 is n|v - mean| - 2 n eps compared
\* with 2 sqrt(n^2 var).
ScoreIsTwo(v, n, sum, sumsq) ==
    LET excess == Abs(n * v - sum) - 2 * n
    IN  excess >= 0 /\ excess * excess = 4 * (n * sumsq - sum * sum)

ScoreAboveTwo(v, n, sum, sumsq) ==
    LET excess == Abs(n * v - sum) - 2 * n
    IN  excess >= 0 /\ excess * excess > 4 * (n * sumsq - sum * sum)

Moments(buf) ==
    [ n |-> Len(buf),
      sum |-> [k \in Dims |-> SeqSum([i \in 1..Len(buf) |-> buf[i][k]])],
      sumsq |-> [k \in Dims |-> SeqSum([i \in 1..Len(buf) |-> buf[i][k] * buf[i][k]])] ]

AtTwo(buf) ==
    UNION { { i \in 1..m.n :
                \E k \in Dims : ScoreIsTwo(buf[i][k], m.n, m.sum[k], m.sumsq[k]) }
            : m \in { Moments(buf) } }

Survivors(buf) ==
    UNION { { i \in 1..m.n :
                \A k \in Dims :
                   /\ ~ScoreIsTwo(buf[i][k], m.n, m.sum[k], m.sumsq[k])
                   /\ ~ScoreAboveTwo(buf[i][k], m.n, m.sum[k], m.sumsq[k]) }
            : m \in { Moments(buf) } }

FirstTargetDone == ctl[1].state = "transitioning" /\ ctl[1].current_point_idx = 1

\* C8: when a target is finished it has a sample exactly when its buffer holds
\* at least 5 vectors of which at least 3 survive the filter, and the sample
\* is the elementwise mean of the survivors alone.
C8_SampleFromSurvivors ==
    FirstTargetDone =>
       LET buf == ctl[1].frame_features_buffer
           surv == IF buf = << >> THEN {} ELSE Survivors(buf)
           cf == ctl[1].collected_features
       IN  /\ Len(cf) = 1 <=> (Len(buf) >= 5 /\ Cardinality(surv) >= 3)
           /\ Len(buf) < 5 => Len(cf) = 0
           /\ Cardinality(surv) < 3 => Len(cf) = 0
           /\ Len(cf) = 1 =>
                 \A k \in Dims :
                    cf[1].num[k] * Cardinality(surv)
                      = cf[1].den * SeqSum([i \in 1..Len(buf) |->
                                             IF i \in surv THEN buf[i][k] ELSE 0])

\* A sample was retained from a buffer of which a vector with non-zero
\* features was excluded.
C8_Witness ==
    /\ FirstTargetDone
    /\ Len(ctl[1].collected_features) = 1
    /\ Cardinality(Survivors(ctl[1].frame_features_buffer)) = 4
    /\ Len(ctl[1].frame_features_buffer) = 6

\* Six vectors buffered, fewer than three survive.
TooFewSurvivors ==
    /\ FirstTargetDone
    /\ Len(ctl[1].frame_features_buffer) = 6
    /\ Cardinality(Survivors(ctl[1].frame_features_buffer)) < 3

\* Four vectors buffered.
TooFewBuffered ==
    FirstTargetDone /\ Len(ctl[1].frame_features_buffer) = 4

OneFarOfSix(buf) ==
    /\ Len(buf) = 6
    /\ \E i \in 1..6 : buf[i] = Far1 /\ \A j \in (1..6) \ { i } : buf[j] = AtRest

\* C9: of a buffer of at least 5 vectors the filter keeps exactly those whose
\* score is below 2.0 on every dimension; a vector with a score of exactly 2.0
\* on some dimension is dropped; of five equal vectors and one far off on one
\* dimension, the five are kept and the one is dropped.
C9_StrictFilter ==
    LET buf == ctl[1].frame_features_buffer
    IN  Len(buf) >= 5 =>
          /\ OutlierMask(buf) = Survivors(buf)
          /\ AtTwo(buf) \cap OutlierMask(buf) = {}
          /\ OneFarOfSix(buf) =>
                /\ Len(Filtered(buf)) = 5
                /\ \A j \in 1..5 : Filtered(buf)[j] = AtRest

\* A buffer holds a vector whose score is exactly 2.0.
C9_Witness ==
    LET buf == ctl[1].frame_features_buffer
    IN  Len(buf) = 6 /\ AtTwo(buf) # {}

\* Five equal vectors and one far off.
OneFarBuffered == OneFarOfSix(ctl[1].frame_features_buffer)

NoDuplicates(seq) ==
    \A i, j \in 1..Len(seq) : i # j => seq[i] # seq[j]

C10_Shape ==
    \A s \in Sessions :
       LET c == ctl[s]
       IN  /\ Len(c.collected_features) = Len(c.collected_screen_pts)
           /\ Len(c.collected_features) <= c.current_point_idx
           /\ NoDuplicates(c.collected_screen_pts)

C10_Append ==
    \A s \in Sessions :
       (Live(ctl[s]) /\ Live(ctl'[s])
          /\ Len(ctl'[s].collected_screen_pts) > Len(ctl[s].collected_screen_pts))
       => /\ ctl[s].view_target_visible
          /\ ctl'[s].collected_screen_pts =
               Append(ctl[s].collected_screen_pts, ctl[s].view_target)
          /\ Len(ctl'[s].collected_features) =
               Len(ctl[s].collected_features) + 1
          /\ ctl'[s].current_point_idx = ctl[s].current_point_idx + 1

\* C10: collected_features and collected_screen_pts always have the same
\* length, never more than current_point_idx; no target position occurs twice;
\* and each sample is appended together with the position of the target on
\* screen while its frames were collected.
C10_SamplesPaired == []C10_Shape /\ [][C10_Append]_vars

\* Several samples are held, fewer than the targets processed.
C10_Witness ==
    \E s \in Sessions :
       /\ Len(ctl[s].collected_screen_pts) >= 3
       /\ Len(ctl[s].collected_screen_pts) < ctl[s].current_point_idx

\* ------------------------------------------------ properties of SpecEst
TrainStep == extractor'.n_trainings = extractor.n_trainings + 1

LastTrain == last_call.kind = "train_model"

\* A slot that predict would use holds a fitted regressor.
Usable(est) ==
    /\ est.model_x.family # "None" => est.model_x.fitted
    /\ est.model_y.family # "None" => est.model_y.fitted

\* C11: the model pair is replaced only by a train_model call that returns,
\* and as a whole: a call in which a fit raises leaves the pair as it was, and
\* predict never finds an unfitted or half-replaced pair.
C11_ReplacedOnlyBySuccess ==
    /\ [](Usable(estimator))
    /\ [][TrainStep /\ last_call'.result.raised => estimator' = estimator]_vars

BothRidgeFitted(est) ==
    /\ est.model_x.family = "ridge" /\ est.model_x.fitted
    /\ est.model_y.family = "ridge" /\ est.model_y.fitted

\* The Gaussian-process cross-validation ran and raised.
GpCvFailed ==
    /\ Min(CvFolds, last_call.args.n) >= 2
    /\ last_call.args.n <= GpMaxSamples
    /\ last_call.args.cv.gp_raises

\* A final fit on at least one sample raised: the family was Gaussian process.
GpFitFailed == last_call.args.n > 0 /\ last_call.args.fit # "ok"

\* C12: when Gaussian-process fitting fails numerically, in cross-validation
\* or in the final fit, train_model raises no exception and ends with the
\* ridge family fitted and active on both axes.
C12_GpFailureFallsBackToRidge ==
    LastTrain /\ (GpCvFailed \/ GpFitFailed) =>
        ~last_call.result.raised /\ BothRidgeFitted(estimator)

\* C13: when cross-validation is skipped (k = min(5, n) < 2) train_model
\* selects the Gaussian-process family if it is available (n <= 50) and the
\* ridge family otherwise.
C13_SkippedCvPrefersGp ==
    LastTrain /\ ~last_call.result.raised /\ Min(CvFolds, last_call.args.n) < 2 =>
        estimator.model_x.family =
            IF last_call.args.n <= GpMaxSamples THEN "gp" ELSE "ridge"

\* The family with the lower cross-validated error among the viable ones,
\* the ridge family on equal errors.
LowerCvError(n, cv) ==
    LET gp_viable == n <= GpMaxSamples /\ ~cv.gp_raises
    IN  IF gp_viable /\ cv.gp < cv.ridge THEN "gp" ELSE "ridge"

\* C14: after every train_model call that returns, both regressors are
\* fitted and of one family; when cross-validation ran, that family is the
\* one with the lower axis-averaged error among the viable families (the
\* Gaussian process is viable only for n <= 50 and if its cross-validation
\* did not fail), and the ridge family on equal errors.
C14_SameFamilyLowerError ==
    LastTrain /\ ~last_call.result.raised =>
        /\ estimator.model_x.family = estimator.model_y.family
        /\ estimator.model_x.fitted /\ estimator.model_y.fitted
        /\ Min(CvFolds, last_call.args.n) >= 2 =>
               estimator.model_x.family = LowerCvError(last_call.args.n, last_call.args.cv)

\* A returned training in which both families were viable and tied.
C14_Witness ==
    /\ LastTrain /\ ~last_call.result.raised
    /\ last_call.args.n = 50
    /\ ~last_call.args.cv.gp_raises
    /\ last_call.args.cv.gp = last_call.args.cv.ridge
    /\ BothRidgeFitted(estimator)

\* A returned training in which the Gaussian process had the lower error.
GpSelected ==
    /\ LastTrain /\ ~last_call.result.raised
    /\ last_call.args.cv.gp < last_call.args.cv.ridge
    /\ estimator.model_x.family = "gp" /\ estimator.model_y.family = "gp"

\* C15: predict returns None as long as no train_model call has returned on
\* this estimator and a pair only after one has; the two slots are both
\* empty or both filled; a tracking tick that finds no model reports no gaze
\* point (face_detected false, confidence 0).
C15_NoGazeWithoutModel ==
    /\ estimator.model_x.family = "None" <=> estimator.model_y.family = "None"
    /\ last_call.kind = "predict" =>
           /\ ~extractor.trained => last_call.result = "None"
           /\ last_call.result = "pair" => extractor.trained
    /\ last_call.kind = "trackingTick" /\ last_call.extracts = 1
         /\ estimator.model_x.family = "None" =>
           ~last_call.result.face_detected /\ last_call.result.confidence = 0

\* A tracking tick with a face in the frame and no model.
TrackingWithoutModel ==
    /\ last_call.kind = "trackingTick" /\ last_call.extracts = 1
    /\ last_call.args.landmarks = FullLandmarks
    /\ estimator.model_x.family = "None"
    /\ ~last_call.result.face_detected /\ last_call.result.confidence = 0

\* ------------------------------------------- properties of Spec, continued
\* The session was cancelled (notified once) or accepted.
Cancelled(c) == Notifications(c) >= 1

Accepted(c) == c.n_complete_true >= 1

Released(c) == ~c.timer /\ ~c.event_monitor /\ ~c.escape_monitor

\* C16: a session that has been cancelled makes no further state transition,
\* frame read, buffer update or sample update (no callback of it runs and
\* nothing of it changes), and its timer and both monitors are released; the
\* same release has happened after Accept.
C16_CancelledStaysStill ==
    /\ [](\A s \in Sessions :
             Cancelled(ctl[s]) \/ Accepted(ctl[s]) => Released(ctl[s]))
    /\ [][ \A s \in Sessions :
             Cancelled(ctl[s]) =>
                /\ ctl'[s] = ctl[s]
                /\ last_call' # last_call => last_call'.who # s ]_vars

\* A session was cancelled, and the session that followed it has since run a
\* tick of its own that read a frame.
C16_Witness ==
    \E s \in Sessions :
       /\ Cancelled(ctl[s]) /\ Released(ctl[s])
       /\ last_call.kind = "tick" /\ last_call.who # s /\ last_call.reads = 1

\* A session was accepted and tracking runs.
AcceptedAndReleased ==
    \E s \in Sessions :
       /\ Accepted(ctl[s]) /\ Released(ctl[s])
       /\ last_call.kind = "trackingTick" /\ last_call.reads = 1

\* ------------------------------------------------ properties of SpecFair
Begun(c) == Live(c) /\ SessionState(c) \notin { "instructions", "results" }

AtResults(c) == Live(c) /\ SessionState(c) = "results"

\* The camera has seen the user's face since the application was launched.
FaceThroughout == scene.now = "good" /\ scene.changes = 0

\* While a target is on its way, shown or collected, it is the target of
\* the current index; the samples retained so far belong to earlier targets.
RowMajor(c) ==
    /\ c.current_point_idx \in 0..NumPoints
    /\ Len(c.collected_screen_pts) <= c.current_point_idx
    /\ (Live(c) /\ SessionState(c) \in { "animating", "settling", "collecting" }) =>
          /\ c.current_point_idx < NumPoints
          /\ c.view_target = points[c.current_point_idx + 1]
    /\ AtResults(c) =>
          /\ c.current_point_idx = NumPoints
          /\ FaceThroughout =>
                /\ c.collected_screen_pts = points
                /\ Len(c.collected_features) = NumPoints
                /\ c.result = "success"

\* The index moves by one at the end of a collecting window and at no other
\* tick, whether the window's sample was retained or not.
IndexStep(c, d) ==
    (Live(c) /\ Live(d) /\ d.round = c.round) =>
        IF SessionState(c) = "collecting" /\ SessionState(d) = "transitioning"
        THEN /\ d.current_point_idx = c.current_point_idx + 1
             /\ Len(d.collected_features) - Len(c.collected_features) \in { 0, 1 }
        ELSE /\ d.current_point_idx = c.current_point_idx
             /\ d.collected_features = c.collected_features

ResultsAfterRejections ==
    \E s \in Sessions :
       /\ AtResults(ctl[s])
       /\ Len(ctl[s].collected_features) \in 1..(NumPoints - 1)

\* ----------------------------------- properties of SpecEst and SpecStamp
\* The last call was process_frame on a frame with a full face.
FaceProcessed ==
    /\ last_call.kind = "process_frame"
    /\ last_call.args.landmarks >= FullLandmarks

\* C18: the camera matrix the pose solver uses belongs to the current
\* frame's size (focal length = width, principal point (width / 2,
\* height / 2)): it is rebuilt whenever either dimension differs from the
\* cached one, and only then.
C18_MatrixOfCurrentFrame ==
    /\ [](FaceProcessed =>
            extractor._camera_matrix = CameraMatrix(last_call.args.w, last_call.args.h))
    /\ [][ extractor._camera_matrix # NoMatrix
             /\ extractor'._camera_matrix # extractor._camera_matrix
           => extractor._camera_matrix #
                 CameraMatrix(last_call'.args.w, last_call'.args.h) ]_vars

\* C19: the timestamps handed to the landmark provider never decrease: every
\* process_frame call hands over the previous timestamp plus 33, whether it
\* comes from a calibration tick or a tracking tick and whether or not the
\* call before it found a face; no other step moves the clock.
C19_TimestampsAdvance ==
    /\ [](extractor.passed = extractor._timestamp_ms
            /\ extractor.passed = FrameMs * extractor.n_calls)
    /\ [][ /\ extractor'.n_calls \in { extractor.n_calls, extractor.n_calls + 1 }
           /\ extractor'.n_calls = extractor.n_calls + 1 =>
                 /\ extractor'.passed = extractor.passed + FrameMs
                 /\ last_call'.kind \in { "tick", "trackingTick" }
                 /\ last_call'.extracts = 1
           /\ extractor'.n_calls = extractor.n_calls =>
                 extractor'.passed = extractor.passed ]_vars

\* A tracking tick handed a frame to the extractor after the calibration
\* session had done so and after at least one call that found no face.
C19_Witness ==
    /\ last_call.kind = "trackingTick" /\ last_call.extracts = 1
    /\ \E s \in Sessions : ctl[s].n_complete_true = 1
    /\ extractor.n_blank >= 2
    /\ extractor.n_calls > extractor.n_blank + NumPoints

\* The last call was process_frame on a full face with the pose solver
\* reporting no success.
PoseFailed == FaceProcessed /\ ~last_call.args.pose.success

\* C20: when the pose solver does not converge the extractor does not fail:
\* yaw = pitch = 0, the 6-component vector is returned, and the confidence is
\* degraded, that is lower than the confidence of a converged frontal frame.
C20_PoseFailureDegrades ==
    PoseFailed =>
        /\ last_call.result.features = IrisOf(last_call.args) \o << 0, 0 >>
        /\ Len(last_call.result.features) = 6
        /\ last_call.result.confidence < PoseConfidence(0, 0)

\* The vector of a frame whose pose was not solved came back with yaw =
\* pitch = 0 and the full confidence.
PoseFailedFullConfidence ==
    /\ PoseFailed
    /\ last_call.result.features = IrisOf(last_call.args) \o << 0, 0 >>
    /\ last_call.result.confidence = MaxConfidence

\* ------------------------------------------------------------------ C21
\* process_frame was called on a frame.
FrameCall == last_call.kind = "process_frame"

\* C21: process_frame returns exactly (None, 0.0, None) when no face is found
\* or the face has fewer than 478 landmarks; in every other case it returns a
\* vector of exactly 6 components, a confidence in [0, 1] (here in hundredths)
\* and the landmark set.
C21_NoFaceOrSixFeatures ==
    FrameCall =>
        IF last_call.args.landmarks < FullLandmarks
        THEN last_call.result = [features |-> None, confidence |-> 0, face |-> 0]
        ELSE /\ last_call.result.features # None
             /\ Len(last_call.result.features) = 6
             /\ last_call.result.confidence \in 0..100
             /\ last_call.result.face = last_call.args.landmarks

\* A face of 477 landmarks was refused and a face of 478 was processed.
C21_WitnessShort ==
    /\ FrameCall
    /\ last_call.args.landmarks = FullLandmarks - 1
    /\ last_call.result.face = 0

C21_Witness ==
    /\ FrameCall
    /\ last_call.args.landmarks = FullLandmarks
    /\ Len(last_call.result.features) = 6
    /\ extractor.n_blank > 0

\* ------------------------------------------------ the functions on their own
\* Eyes given to _normalise_iris: the first corner at the origin, the second
\* coinciding with it, less than a pixel away, exactly a pixel away, or
\* farther, along an axis or not; lids likewise; the iris inside the eye,
\* outside it on either side, or far away.
EyeInputs ==
    { [fn |-> "_normalise_iris", iris |-> i, a |-> << 0, 0 >>, b |-> b,
       top |-> << 1, 0 >>, bottom |-> bt] :
         i \in { << -3, 1 >>, << 1, 1 >>, << 2, 3 >>, << 9, 9 >> },
         b \in { << 0, 0 >>, << 1, 0 >>, << 1, 1 >>, << 2, 0 >>, << 4, 0 >>, << 3, 4 >> },
         bt \in { << 1, 0 >>, << 1, 1 >>, << 2, 1 >>, << 1, 2 >>, << 1, 6 >>, << 4, -4 >> } }

\* Rounds given to the result screen: 10, 15 or 20 retained samples on a
\* 1000 or 1440 pixel wide screen, the first predicted at one offset from its
\* target and all the others at another; the estimator is the pair a
\* train_model call that returned leaves.
Offsets == { << 0, 0 >>, << -3, 4 >>, << 30, 40 >>, << 0, 51 >>, << 0, 72 >>, << 60, 80 >> }

Shifted(targets, first, others) ==
    [i \in 1..Len(targets) |->
        LET d == IF i = 1 THEN first ELSE others
        IN  << targets[i][1] + d[1], targets[i][2] + d[2] >>]

ResultInputs ==
    { [fn |-> "_finish_calibration", screen_width |-> d[1],
       targets |-> SubSeq(generate_calibration_points(d[1], d[2], GridCols, GridRows), 1, n),
       preds |-> Shifted(SubSeq(generate_calibration_points(d[1], d[2], GridCols, GridRows),
                                1, n), first, others)] :
         d \in { << 1000, 800 >>, << 1440, 900 >> }, n \in { 10, 15, 20 },
         first \in Offsets, others \in Offsets }

FunInputs == EyeInputs \cup ResultInputs

InitFun ==
    /\ app = AppInit
    /\ estimator = EstimatorInit
    /\ extractor = ExtractorInit
    /\ ctl = [s \in Sessions |-> Unborn]
    /\ camera = [opened |-> 0, released |-> {}]
    /\ scene = [now |-> "good", changes |-> 0]
    /\ \E x \in FunInputs : last_call = [Idle EXCEPT !.args = x]

\* The function fn is applied to the input drawn.
Pending(fn) == last_call.kind = "none" /\ last_call.args.fn = fn

NormaliseIris ==
    /\ Pending("_normalise_iris")
    /\ last_call' = [last_call EXCEPT
                       !.kind = "_normalise_iris",
                       !.result = _normalise_iris(last_call.args.iris, last_call.args.a,
                                                  last_call.args.b, last_call.args.top,
                                                  last_call.args.bottom)]
    /\ UNCHANGED << app, estimator, extractor, ctl, camera, scene >>

\* The estimator after a train_model call that returned.
Trained == train_model(EstimatorInit, MinSamples, [session |-> 1, round |-> 0],
                       EqualCv, "ok")

ShowResults ==
    /\ Pending("_finish_calibration")
    /\ last_call' = [last_call EXCEPT
                       !.kind = "_finish_calibration",
                       !.result = ResultScreen([model_x |-> Trained.model_x,
                                                model_y |-> Trained.model_y],
                                               last_call.args.targets,
                                               last_call.args.preds,
                                               last_call.args.screen_width)]
    /\ UNCHANGED << app, estimator, extractor, ctl, camera, scene >>

NextFun ==
    \/ NormaliseIris
    \/ ShowResults

SpecFun == InitFun /\ [][NextFun]_vars

\* ------------------------------------------------------------------ C22
Normalised == last_call.kind = "_normalise_iris"

\* Squared length, in squared pixels times SubPx * SubPx, between two points.
DistSq(u, v) == (u[1] - v[1]) * (u[1] - v[1]) + (u[2] - v[2]) * (u[2] - v[2])

\* The eye is less than one pixel wide or less than one pixel high.
TinyEye(e) ==
    \/ DistSq(e.a, e.b) < SubPx * SubPx
    \/ DistSq(e.top, e.bottom) < SubPx * SubPx

InUnit(q) == q.den > 0 /\ 0 <= q.num /\ q.num <= q.den

\* C22: _normalise_iris returns exactly (0.5, 0.5) whenever the eye width or
\* the eye height is below 1 pixel, whatever the iris position, and for every
\* eye at least 1 pixel wide and high a pair with both components in [0, 1].
C22_DegenerateHalfElseUnit ==
    Normalised =>
        /\ TinyEye(last_call.args) =>
              last_call.result = << [num |-> 1, den |-> 2], [num |-> 1, den |-> 2] >>
        /\ ~TinyEye(last_call.args) =>
              InUnit(last_call.result[1]) /\ InUnit(last_call.result[2])

\* An eye of at least a pixel each way whose iris lies beyond the second
\* corner and before the upper lid: the pair is (1, 0).
C22_Witness ==
    /\ Normalised
    /\ ~TinyEye(last_call.args)
    /\ last_call.args.iris = << 9, 9 >>
    /\ last_call.args.bottom = << 4, -4 >>
    /\ last_call.result = << [num |-> 1, den |-> 1], [num |-> 0, den |-> 1] >>

\* An eye exactly a pixel wide but less than a pixel high, the iris far away.
C22_WitnessTiny ==
    /\ Normalised
    /\ DistSq(last_call.args.a, last_call.args.b) = SubPx * SubPx
    /\ DistSq(last_call.args.top, last_call.args.bottom) = 1
    /\ last_call.args.iris = << 9, 9 >>
    /\ last_call.result[1] = [num |-> 1, den |-> 2]

\* ---------------------------------------------------- the grid and its use
\* Screens and grids given to generate_calibration_points.
GridInputs ==
    { [fn |-> "generate_calibration_points", w |-> d[1], h |-> d[2],
       cols |-> nc, rows |-> nr] :
         d \in { << 1000, 800 >>, << 1440, 900 >>, << 1920, 1080 >>, << 2560, 1440 >> },
         nc \in 2..5, nr \in 2..4 }

InitGrid ==
    /\ app = AppInit
    /\ estimator = EstimatorInit
    /\ extractor = ExtractorInit
    /\ ctl = [s \in Sessions |-> Unborn]
    /\ camera = [opened |-> 0, released |-> {}]
    /\ scene \in [now : Scenes, changes : {0}]
    /\ \E x \in GridInputs : last_call = [Idle EXCEPT !.args = x]

GenerateGrid ==
    /\ ~app.launched
    /\ Pending("generate_calibration_points")
    /\ last_call' = [last_call EXCEPT
                       !.kind = "generate_calibration_points",
                       !.result = generate_calibration_points(
                                      last_call.args.w, last_call.args.h,
                                      last_call.args.cols, last_call.args.rows)]
    /\ UNCHANGED << app, estimator, extractor, ctl, camera, scene >>

\* The function by itself, and the sessions of an application that builds its
\* controllers' target lists with it.
NextGrid ==
    \/ GenerateGrid
    \/ \E ok \in BOOLEAN : Launch(ok)
    \/ BeginEvent(36)
    \/ \E s \in Sessions : EscapeKey(s, FALSE)
    \/ \E s \in Sessions :
          Tick(s, SceneFrame(scene.now), SceneFrame(scene.now), EqualCv, "ok")
    \/ TrackingTick(SceneFrame(scene.now))
    \/ \E dt \in Dts : Advance(dt)
    \/ \E s \in Sessions : Accept(s)
    \/ \E s \in Sessions : Redo(s)
    \/ \E sc \in Scenes : SceneChange(sc)

SpecGrid == InitGrid /\ [][NextGrid]_vars

\* ------------------------------------------------------------------ C23
\* p is the grid for a w x h screen: cols * rows points, pairwise distinct,
\* rows of cols points from left to right, one row after the other from the
\* top, every point inside the 5% margins, the first at (0.05 w, 0.05 h) and
\* the last at (0.95 w, 0.95 h).
GridOk(p, w, h, cols, rows) ==
    /\ Len(p) = cols * rows
    /\ \A i, j \in 1..Len(p) : i # j => p[i] # p[j]
    /\ \A i \in 1..(Len(p) - 1) :
          IF i % cols # 0
          THEN p[i + 1][2] = p[i][2] /\ p[i + 1][1] > p[i][1]
          ELSE p[i + 1][2] > p[i][2] /\ p[i + 1][1] = p[1][1]
    /\ \A i \in 1..Len(p) :
          /\ 5 * w <= 100 * p[i][1] /\ 100 * p[i][1] <= 95 * w
          /\ 5 * h <= 100 * p[i][2] /\ 100 * p[i][2] <= 95 * h
    /\ 100 * p[1][1] = 5 * w /\ 100 * p[1][2] = 5 * h
    /\ 100 * p[Len(p)][1] = 95 * w /\ 100 * p[Len(p)][2] = 95 * h

Generated == last_call.kind = "generate_calibration_points"

GridShape ==
    /\ Generated =>
          /\ GridOk(last_call.result, last_call.args.w, last_call.args.h,
                    last_call.args.cols, last_call.args.rows)
          /\ (last_call.args.w = 1000 /\ last_call.args.h = 800
              /\ last_call.args.cols = 5 /\ last_call.args.rows = 4) =>
                /\ Len(last_call.result) = 20
                /\ last_call.result[1] = << 50, 40 >>
                /\ last_call.result[20] = << 950, 760 >>
    /\ \A s \in Sessions :
          Live(ctl[s]) => GridOk(ctl[s].points, ScreenWidth, ScreenHeight, 5, 4)

\* No step changes the target list of a controller that exists.
PointsKept ==
    \A s \in Sessions :
        (Live(ctl[s]) /\ Live(ctl'[s])) => ctl'[s].points = ctl[s].points

\* C23: generate_calibration_points(W, H, cols, rows) with cols, rows >= 2
\* returns cols * rows pairwise distinct points in row-major order inside the
\* 5% margins, from (0.05 W, 0.05 H) to (0.95 W, 0.95 H); for 1000 x 800, 5 x 4
\* these are 20 points from (50, 40) to (950, 760); a controller's list is
\* generated once and never changed afterwards.
C23_GridGeneratedOnce == [](GridShape) /\ [][PointsKept]_vars

\* The 1000 x 800 screen with the default grid.
C23_Witness ==
    /\ Generated
    /\ last_call.args.w = 1000 /\ last_call.args.h = 800
    /\ last_call.args.cols = 5 /\ last_call.args.rows = 4
    /\ last_call.result[1] = << 50, 40 >>
    /\ last_call.result[6] = << 50, 280 >>
    /\ last_call.result[20] = << 950, 760 >>

\* A controller that went through a redone round to its results still holds
\* the list.
C23_WitnessKept ==
    \E s \in Sessions :
        /\ Live(ctl[s])
        /\ ctl[s].round > 0
        /\ ctl[s].view_phase = "results"
        /\ ctl[s].points = points

\* ------------------------------------------------------------------ C24
ResultsShown == last_call.kind = "_finish_calibration"

\* The entry of sample i: its target, the prediction and their distance.
EntryOf(i) ==
    LET t == last_call.args.targets[i]
        q == last_call.args.preds[i]
        e == last_call.result._result_points[i]
    IN  /\ << e[1], e[2] >> = t
        /\ << e[3], e[4] >> = q
        /\ e[5] >= 0
        /\ e[5] * e[5] = (q[1] - t[1]) * (q[1] - t[1]) + (q[2] - t[2]) * (q[2] - t[2])

\* C24: on Success the result holds one (target, predicted, error) entry per
\* retained sample, meanErrorPct equals meanErrorPx / screenWidth * 100, and
\* the warning is shown if and only if meanErrorPct is strictly greater than
\* 5.0 (exactly 5.0 gives no warning).
C24_ResultEntriesAndWarning ==
    ResultsShown =>
        LET r == last_call.result
            w == last_call.args.screen_width
        IN  /\ Len(r._result_points) = Len(last_call.args.targets)
            /\ \A i \in 1..Len(last_call.args.targets) : EntryOf(i)
            /\ r._mean_error_pct.num * r._mean_error.den * w
                  = 100 * r._mean_error.num * r._mean_error_pct.den
            /\ r._show_warning <=> r._mean_error_pct.num > 5 * r._mean_error_pct.den
            /\ r._mean_error_pct = [num |-> 5, den |-> 1] => ~r._show_warning

\* Twenty samples, each predicted 72 pixels off on a 1440 pixel screen: 5.0%
\* and no warning.
C24_Witness ==
    /\ ResultsShown
    /\ last_call.args.screen_width = 1440
    /\ Len(last_call.result._result_points) = 20
    /\ last_call.result._mean_error = [num |-> 72, den |-> 1]
    /\ last_call.result._mean_error_pct = [num |-> 5, den |-> 1]
    /\ ~last_call.result._show_warning

\* Ten samples, nine 50 pixels off and one 51, on a 1000 pixel screen: 5.01%
\* and the warning.
C24_WitnessWarned ==
    /\ ResultsShown
    /\ last_call.result._mean_error = [num |-> 501, den |-> 10]
    /\ last_call.result._mean_error_pct = [num |-> 501, den |-> 100]
    /\ last_call.result._show_warning

\* ------------------------------------------------------- the session clock
\* One session with the user's face in view, from launch to the result
\* screen; the timer fires after 0.10 s or 0.15 s, so that a duration is met
\* exactly by some runs and overshot by others.
ClockDts == { 2, 3 }

NextClock ==
    \/ Launch(TRUE)
    \/ BeginEvent(36)
    \/ \E s \in Sessions :
          Tick(s, SceneFrame(scene.now), SceneFrame(scene.now), EqualCv, "ok")
    \/ \E dt \in ClockDts : Advance(dt)

SpecClock == InitApp /\ [][NextClock]_vars

\* ------------------------------------------------------------------ C25
TimedStates == { "animating", "settling", "collecting", "transitioning" }

TimeOf(st) ==
    CASE st = "animating"     -> AnimatingTime
      [] st = "settling"      -> SettlingTime
      [] st = "collecting"    -> CollectingTime
      [] st = "transitioning" -> TransitioningTime

\* The state that follows a timed state.
Following(st) ==
    CASE st = "animating"     -> { "settling" }
      [] st = "settling"      -> { "collecting" }
      [] st = "collecting"    -> { "transitioning" }
      [] st = "transitioning" -> { "animating", "results" }

\* This step is the tick of controller s: its timer, which was due, has fired.
TickOf(s) ==
    /\ last_call'.kind = "tick" /\ last_call'.who = s
    /\ ~ctl[s].timer_fired /\ ctl'[s].timer_fired

\* What a step does to the timed state of controller s: the time of a state
\* counts from its entry and runs with the clock; the state is left only by
\* a tick at or after its duration, by every such tick, and for the state
\* that follows it.
TimedStep(s) ==
    LET c == ctl[s]
        d == ctl'[s]
        a == SessionState(c)
        b == SessionState(d)
    IN  (Live(c) /\ Live(d) /\ a \in TimedStates) =>
           /\ b # a => /\ TickOf(s)
                       /\ c.elapsed >= TimeOf(a)
                       /\ b \in Following(a)
                       /\ b \in TimedStates => d.elapsed = 0
           /\ (TickOf(s) /\ c.elapsed >= TimeOf(a)) => b # a
           /\ (b = a /\ ~TickOf(s)) =>
                 \/ d.elapsed = c.elapsed
                 \/ last_call'.kind = "none" /\ d.elapsed - c.elapsed \in ClockDts

EntersCollecting(s) ==
    SessionState(ctl[s]) # "collecting" /\ SessionState(ctl'[s]) = "collecting"

\* The buffer of s gained exactly one vector at its end.
OneAppended(s) ==
    /\ Len(ctl'[s].frame_features_buffer) = Len(ctl[s].frame_features_buffer) + 1
    /\ SubSeq(ctl'[s].frame_features_buffer, 1, Len(ctl[s].frame_features_buffer))
          = ctl[s].frame_features_buffer

\* What a step does to the buffer, the samples and the index of controller s:
\* the buffer is empty on entry into Collecting; apart from that it changes
\* only by a vector appended by a tick in Collecting; a sample is the
\* aggregate of the buffer of the tick that finishes the target; and a tick in
\* another state changes neither samples nor index, nor the buffer unless it
\* is the tick of Settling that enters Collecting.
BufferStep(s) ==
    LET c == ctl[s]
        d == ctl'[s]
        a == SessionState(c)
    IN  (Live(c) /\ Live(d)) =>
           /\ EntersCollecting(s) => d.frame_features_buffer = << >>
           /\ d.frame_features_buffer # c.frame_features_buffer =>
                 \/ EntersCollecting(s)
                 \/ TickOf(s) /\ a = "collecting" /\ OneAppended(s)
           /\ (TickOf(s) /\ a = "collecting"
               /\ d.collected_features # c.collected_features) =>
                 d.collected_features
                    = Append(c.collected_features,
                             MeanOf(Filtered(d.frame_features_buffer)))
           /\ (TickOf(s) /\ a \in { "instructions", "animating", "settling",
                                   "transitioning" }) =>
                 /\ d.collected_features = c.collected_features
                 /\ d.collected_screen_pts = c.collected_screen_pts
                 /\ d.current_point_idx = c.current_point_idx
                 /\ a # "settling" => d.frame_features_buffer = c.frame_features_buffer

NextMenu ==
    /\ FirstTarget
    /\ \/ \E ok \in BOOLEAN : Launch(ok)
       \/ BeginEvent(36)
       \/ \E s \in Sessions : EscapeKey(s, FALSE)
       \/ \E s \in Sessions :
             Tick(s, SceneFrame(scene.now), SceneFrame(scene.now), EqualCv, "ok")
       \/ \E dt \in Dts : Advance(dt)
       \/ StartCalibrationMenu
       \/ \E ok \in BOOLEAN : SwitchCamera(ok)

SpecMenu == InitApp /\ [][NextMenu]_vars

\* ------------------------------------------------------------------ C27
\* C27: at most one calibration session is ticking at any time: there are
\* never two controllers with an active timer that read the shared camera.
C27_OneSessionTicking ==
    \A s, t \in Sessions :
        (ctl[s].timer /\ ctl[t].timer /\ ctl[s].capture = ctl[t].capture) => s = t

\* Two controllers on the same capture are both collecting, and the tick of
\* one of them has just read a frame from it.
TwoSessionsCollecting ==
    \E s, t \in Sessions :
        /\ s # t
        /\ ctl[s].timer /\ ctl[t].timer
        /\ ctl[s].capture = ctl[t].capture
        /\ ctl[s].state = "collecting" /\ ctl[t].state = "collecting"
        /\ last_call.kind = "tick" /\ last_call.who = s /\ last_call.reads > 0

RunningOnReleased ==
    \E s \in Sessions :
        /\ ctl[s].timer
        /\ ctl[s].capture \in camera.released
        /\ app.capture # ctl[s].capture
        /\ ctl[s].state = "collecting"

\* --------------------------------------------- training that can fail
\* The application of SpecApp (the menu is used while no calibration timer is
\* scheduled, also over a result screen) with the user's face in view, when
\* the Gaussian process wins the cross-validation and its final fit may
\* raise.
GpCv == [ridge |-> 2, gp |-> 1, gp_raises |-> FALSE]

NextRetrain ==
    \/ Launch(TRUE)
    \/ BeginEvent(36)
    \/ \E s \in Sessions, fit \in { "ok", "x" } :
          Tick(s, SceneFrame(scene.now), SceneFrame(scene.now), GpCv, fit)
    \/ TrackingTick(SceneFrame(scene.now))
    \/ \E dt \in Dts : Advance(dt)
    \/ \E s \in Sessions : Accept(s)
    \/ \E s \in Sessions : Redo(s)
    \/ NoCalibrationTimer /\ StartCalibrationMenu

SpecRetrain == InitApp /\ [][NextRetrain]_vars

\* ------------------------------------------------------------------ C29
\* The estimator holds a trained model: both regressors are fitted.
HoldsTrainedModel == predict(estimator, GoodFeatures) = "pair"

\* Tracking starts in this step.
TrackingStarts == ~app.is_tracking /\ app'.is_tracking

\* The step is Accept on the result screen of a round that ended in Success.
AcceptOfSuccess ==
    /\ last_call'.kind = "accept"
    /\ ctl[last_call'.who].result = "success"
    /\ ctl[last_call'.who].buttons = "both"

FailureScreenHasNoAccept ==
    \A s \in Sessions : ctl[s].result = "failure" => ctl[s].buttons # "both"

\* C29: live tracking starts only after a calibration round ended in Success
\* and was accepted: _start_tracking is reached only through Accept, Accept
\* cannot fire after a Failure result, and whenever is_tracking is true the
\* estimator holds a trained model.
C29_TrackingOnlyAfterAcceptedSuccess ==
    /\ [](app.is_tracking => HoldsTrainedModel)
    /\ [](FailureScreenHasNoAccept)
    /\ [][TrackingStarts => AcceptOfSuccess]_vars

\* Tracking is on while the estimator's regressors are not fitted.
TrackingOnUnfitted ==
    /\ app.is_tracking
    /\ app.tracking_timer
    /\ predict(estimator, GoodFeatures) = "NotFittedError"

\* ------------------------------------------------------------------ C30
\* The step is Redo on controller s, which was showing its results.
RedoOf(s) ==
    /\ last_call'.kind = "redo" /\ last_call'.who = s
    /\ SessionState(ctl[s]) = "results"

\* After Redo the controller is at Instructions with index 0 and nothing
\* retained, holds one timer and one pair of monitors, none is left over from
\* the round before, and no other controller has any.
FreshRound(s) ==
    LET d == ctl'[s]
    IN  RedoOf(s) =>
           /\ SessionState(d) = "instructions"
           /\ d.current_point_idx = 0
           /\ d.collected_features = << >> /\ d.collected_screen_pts = << >>
           /\ d.round = ctl[s].round + 1
           /\ d.timer /\ d.event_monitor /\ d.escape_monitor
           /\ d.leaked = 0
           /\ \A t \in Sessions \ { s } : Handles(ctl'[t]) = 0 /\ ctl'[t].leaked = 0

\* In a round after a Redo every retained sample belongs to a target finished
\* in that round, and the result screen counts and trains on those alone.
OwnSamplesOnly ==
    \A s \in Sessions :
        LET c == ctl[s]
        IN  (Live(c) /\ c.round > 0) =>
               /\ Len(c.collected_features) <= c.current_point_idx
               /\ c.collected_screen_pts
                     = SubSeq(c.collected_screen_pts, 1, Len(c.collected_features))
               /\ \A i \in 1..Len(c.collected_screen_pts) :
                     \E j \in 1..c.current_point_idx : c.collected_screen_pts[i] = points[j]
               /\ SessionState(c) = "results" =>
                     /\ c.result = "success" <=> Len(c.collected_features) >= MinSamples
                     /\ c.result = "success" => c.trained_with = Len(c.collected_features)
                     /\ c.result = "failure" => c.train_calls = 0

\* C30: Redo starts a fresh round: after Redo the session is at Instructions
\* with target index 0 and no retained samples, exactly one tick timer and one
\* pair of event monitors are active, and samples of the rejected round never
\* enter the next round's training set nor count toward its 10-sample
\* threshold.
C30_RedoStartsFresh ==
    /\ [][\A s \in Sessions : FreshRound(s)]_vars
    /\ [](OwnSamplesOnly)

\* A round that trained the model was rejected; in the next round the face
\* was out of view, and it ended in Failure with fewer than 10 samples.
C30_Witness ==
    \E s \in Sessions :
        /\ Live(ctl[s]) /\ ctl[s].round = 1
        /\ SessionState(ctl[s]) = "results"
        /\ ctl[s].result = "failure"
        /\ Len(ctl[s].collected_features) < MinSamples
        /\ estimator.model_x.fitted
        /\ estimator.model_x.by = [session |-> s, round |-> 0]

====
